---- MODULE Spec2Model ----
(***************************************************************************)
(* A model of the log-structured key-value store (package datastore) and   *)
(* of the load balancer (cmd/lb).                                          *)
(*                                                                         *)
(* Segment files are sequences of bytes, framed exactly as Entry.Encode    *)
(* frames them; byte offsets are 0-based as in the source, sequences are   *)
(* 1-based as in TLA+.  The goroutines of the store (Put callers, the put  *)
(* executor, a Get caller, Compact, Close) are processes with program      *)
(* counters; db.mu is held by the executor across its steps, and getPos    *)
(* and Compact, which hold it for their whole body, are single steps.      *)
(***************************************************************************)
EXTENDS Integers, Sequences, FiniteSets, TLC

\* ------------------------------------------------------------------ bounds

\* Put calls made in one behaviour.
MaxPuts == 3

\* Compact calls made in one behaviour.
MaxCompacts == 2

\* NewDb calls (re-opening the directory) made in one behaviour.
MaxReopens == 1

\* Put calls made in one behaviour of concurrent callers.
ConcPuts == 2

\* Put calls made in one behaviour in which Close is called concurrently.
ClosePuts == 2

\* Bytes overwritten on disk in one behaviour.
MaxTampers == 1

\* Calls of Put before and after the bytes are overwritten.
TamperPuts == 2

\* The longest key and the longest value given to the codec.
CodecLen == 2

\* Calls of Put made on a store whose files get cut short.
DamagePuts == 3

\* Calls of Put made on a store whose frames get damaged.
FramePuts == 2

\* Calls of Put, and Compacts that replace the roster, in a fair behaviour.
FairPuts == 2

FairCompacts == 1

\* Calls of Put made while Compact callers compete for db.mu.
MutexPuts == 2

\* Requests the load balancer's frontend receives in one behaviour.
MaxRequests == 2

\* Requests served concurrently in one behaviour.
MaxForwards == 2

\* Requests received one after the other in one behaviour of the rotation.
RotRequests == 6

\* The size of the response body of every request of the rotation.
RotBody == 10

\* --------------------------------------------------------------- constants

\* len(e.hash): the hex digest of SHA-1 has 40 characters.
HashLen == 40

\* The two length prefixes and the total size: 3 * 4 bytes.
HeaderLen == 12

\* The keys and values callers use (text, as bytes): "a", "b"; "x", "yy".
Keys == {<<97>>, <<98>>}

Values == {<<120>>, <<121, 121>>}

\* The size budgets NewDb is given: one that fits two records unless both
\* carry the long value, and one smaller than any record.
SegmentSizes == {50, 109}

\* The size budget of the store that concurrent callers use.
ConcSegmentSize == CHOOSE n \in SegmentSizes : \A m \in SegmentSizes : m <= n

\* ------------------------------------------------------------------- codec

\* binary.LittleEndian.PutUint32(buf, uint32(n)).  Every length the model meets
\* is below 2^31, where the conversion to uint32 changes nothing.
PutUint32(n) ==
    <<n % 256, (n \div 256) % 256, (n \div 65536) % 256, (n \div 16777216) % 256>>

\* binary.LittleEndian.Uint32(b), b holding at least 4 bytes
Uint32(b) == b[1] + 256 * b[2] + 65536 * b[3] + 16777216 * b[4]

\* input[from:] of a Go slice (0-based from)
SliceFrom(input, from) == SubSeq(input, from + 1, Len(input))

\* input[from:to] of a Go slice
Slice(input, from, to) == SubSeq(input, from + 1, to)

RECURSIVE Fold(_)
\* The value read as a number: distinct values give distinct numbers.
Fold(v) == IF v = <<>> THEN 0 ELSE (v[1] + 1) + 257 * Fold(Tail(v))

\* One lower-case hexadecimal digit, as fmt's %x prints it.
HexDigit(d) == IF d < 10 THEN 48 + d ELSE 87 + d

\* calculateHash: the 40 hexadecimal characters of the digest of value.  SHA-1
\* itself is modelled by a function that, like it, is deterministic and gives
\* different values (of up to 3 bytes) different digests.
calculateHash(value) ==
    [i \in 1..HashLen |-> HexDigit((Fold(value) \div (16 ^ ((i - 1) % 7))) % 16)]

\* The zero Entry{}.
NoEntry == [key |-> <<>>, value |-> <<>>, hash |-> <<>>]

\* A faulty Encode: the hash the entry holds is written.
EncodeGivenHash(e) ==
    LET kl == Len(e.key)
        vl == Len(e.value)
        size == kl + vl + Len(e.hash) + HeaderLen
    IN  PutUint32(size) \o PutUint32(kl) \o e.key \o PutUint32(vl) \o e.value \o e.hash

\* Entry.Encode: the hash is set from the value, whatever the entry held.
Encode(e) ==
    LET kl == Len(e.key)
        vl == Len(e.value)
        hash == calculateHash(e.value)
        hl == Len(hash)
        size == kl + vl + hl + HeaderLen
    IN  PutUint32(size) \o PutUint32(kl) \o e.key \o PutUint32(vl) \o e.value \o hash

\* getLength(key, value)
getLength(key, value) == Len(key) + Len(value) + HeaderLen

\* Entry.GetLength
GetLength(e) == getLength(e.key, e.value) + Len(e.hash)

\* Entry.Decode.  A slice expression out of range panics: panic is TRUE then,
\* and the entry is the zero entry.  The slices taken are input[4:], input[8:kl+8],
\* input[kl+8:] (4 bytes of it are read), input[kl+12:kl+12+vl], input[kl+12+vl:];
\* kl and vl are below 2^31, so the uint32 sums do not wrap.
Decode(input) ==
    LET n == Len(input)
    IN  IF n < 8 THEN [panic |-> TRUE, entry |-> NoEntry]
        ELSE
        LET kl == Uint32(SliceFrom(input, 4))
        IN  IF kl > n - 12
            THEN [panic |-> TRUE, entry |-> NoEntry]
            ELSE
            LET vl == Uint32(SliceFrom(input, kl + 8))
            IN  IF vl > n - (kl + 12)
                THEN [panic |-> TRUE, entry |-> NoEntry]
                ELSE [panic |-> FALSE,
                      entry |-> [key |-> Slice(input, 8, kl + 8),
                                 value |-> Slice(input, kl + 12, kl + 12 + vl),
                                 hash |-> SliceFrom(input, kl + 12 + vl)]]

\* readNext on a reader positioned before the bytes r: Peek(4), then
\* io.ReadFull of size bytes.
readNext(r) ==
    IF Len(r) < 4 THEN [err |-> "EOF", data |-> <<>>]
    ELSE LET size == Uint32(r)
         IN  IF size > Len(r)
             THEN [err |-> "ErrUnexpectedEOF", data |-> <<>>]
             ELSE [err |-> "nil", data |-> SubSeq(r, 1, size)]

\* ------------------------------------------------------------------- state

\* The goroutines calling Put, and those calling Close.
Writers == {"w1", "w2"}

Closers == {"c1", "c2"}

\* The load balancer's static pool (serversPool).
Pool == <<"server1:8080", "server2:8080", "server3:8080">>

VARIABLES
    dir,               \* the directory: segment number N |-> bytes of current-data<N>
    segments,          \* db.segments: the roster, each [filePath, index]
    out,               \* db.out: the write handle, [path, closed]
    lastSegmentIndex,  \* db.lastSegmentIndex
    segmentSize,       \* db.segmentSize
    muHeld,            \* db.mu is write-locked by the put executor
    chClosed,          \* db.putOps has been closed
    closeOnce,         \* db.closeOnce: "fresh", "running" or "done"
    openErr,           \* what the last NewDb returned
    exec,              \* the put executor: [pc, w, entry, n]
    wpc, wop, resp,    \* per Put caller: position, its PutOp's entry, its resp channel
    rpc, rkey, rpos, rres,  \* the Get caller: position, key, KeyPosition, result
    cpc, cret,         \* per Close caller: position and returned error
    panicked,          \* a goroutine has panicked: the process is gone
    acked,             \* history: per key, the value of the last acknowledged Put
    putBytes,          \* history: total encoded length of the acknowledged Puts
    rFloor, rLater,    \* history: acked[rkey] when Get was called; values put since
    nPuts, nCompacts, nReopens, nTampers,   \* calls made so far
    compacted,         \* history: Compact replaced the roster and no Put was called since
    closeView,         \* history: what Get returned for each key, and the files of
                       \* the roster, when Close was called
    healthyPool,       \* b.healthyPool
    serverTraffic,     \* b.serverTraffic
    probe,             \* healthCheck's round: [i, newHealthyPool, checks, finished]
    lastRound,         \* history: per backend, its check in the last finished round
    chosen,            \* the last request: what chooseServer returned, the status
    fwd,               \* per request: [pc, dst, sent, status, err, n] of its handler
    nRequests,         \* requests received so far
    delivered,         \* history: per backend, the body bytes written to clients
    hpc,               \* the HTTP handler of the store's server: its position
    hres,              \* its request, what the store returned to it, its response
    codec,             \* a run of the codec: [pc, entry, encoded, decoded]
    kpc                \* the Compact caller that takes db.mu first: its position

kvVars == <<dir, segments, out, lastSegmentIndex, segmentSize, muHeld, chClosed,
            closeOnce, openErr, exec, wpc, wop, resp, rpc, rkey, rpos, rres,
            cpc, cret, panicked, acked, putBytes, rFloor, rLater,
            nPuts, nCompacts, nReopens, nTampers, compacted, closeView>>

lbVars == <<healthyPool, serverTraffic, probe, lastRound, chosen, fwd, nRequests,
            delivered>>

httpVars == <<hpc, hres>>

pureVars == <<codec>>

compactVars == <<kpc>>

vars == <<kvVars, lbVars, httpVars, pureVars, compactVars>>

\* No value: the key was never put.
NoValue == <<>>

\* A KeyPosition that points nowhere (getPos returned nil).
NoPos == [filePath |-> -1, position |-> -1]

\* A map with key k set to v.
MapSet(m, k, v) == [x \in DOMAIN m \cup {k} |-> IF x = k THEN v ELSE m[x]]

\* A new Segment{filePath, index: make(hashIndex)}; the path is the file's number.
NewSegment(n) == [filePath |-> n, index |-> <<>>]

\* db.getLastSegment (the roster is never empty once NewDb has returned)
getLastSegment == segments[Len(segments)]

\* db.out.Seek(0, io.SeekEnd): the size of the file, or 0 and an error on a
\* closed handle.
SeekEnd == IF out.closed THEN [pos |-> 0, err |-> "ErrClosed"]
           ELSE [pos |-> Len(dir[out.path]), err |-> "nil"]

\* Segment.getFromSegment: a private handle (os.Open fails when the file is
\* gone), Seek (which fails on a negative position), readNext, Decode.
getFromSegment(filePath, position) ==
    IF filePath \notin DOMAIN dir
    THEN [err |-> "ErrNotExist", panic |-> FALSE, entry |-> NoEntry]
    ELSE IF position < 0
    THEN [err |-> "EINVAL", panic |-> FALSE, entry |-> NoEntry]
    ELSE LET r == readNext(SliceFrom(dir[filePath], position))
         IN  IF r.err # "nil"
             THEN [err |-> r.err, panic |-> FALSE, entry |-> NoEntry]
             ELSE LET d == Decode(r.data)
                  IN  [err |-> "nil", panic |-> d.panic, entry |-> d.entry]

RECURSIVE getPosUp(_, _)
\* A faulty lookup: the roster is scanned from the oldest segment up.
getPosUp(key, j) ==
    IF j > Len(segments) THEN [err |-> "ErrNotFound", keyPos |-> NoPos]
    ELSE IF key \in DOMAIN segments[j].index
         THEN [err |-> "nil",
               keyPos |-> [filePath |-> segments[j].filePath,
                           position |-> segments[j].index[key]]]
         ELSE getPosUp(key, j + 1)

\* The faulty lookup in the place of getPosFrom: oldest segment first.
getPosOldestFirst(key, i) == getPosUp(key, 1)

RECURSIVE getPosFrom(_, _)
\* getPos's loop: the roster from segment i down to the oldest, first hit wins.
getPosFrom(key, i) ==
    IF i = 0 THEN [err |-> "ErrNotFound", keyPos |-> NoPos]
    ELSE IF key \in DOMAIN segments[i].index
         THEN [err |-> "nil",
               keyPos |-> [filePath |-> segments[i].filePath,
                           position |-> segments[i].index[key]]]
         ELSE getPosFrom(key, i - 1)

\* db.getPos
getPos(key) == getPosFrom(key, Len(segments))

\* A faulty integrity test: every hash is accepted.
hashAlwaysMatches(entry) == TRUE

\* Is the hash of the entry the hash of its value? (the test Get makes)
hashMatches(entry) == calculateHash(entry.value) = entry.hash

\* db.Get after getPos has returned keyPos: the record read and the hash check.
GetAt(keyPos) ==
    LET g == getFromSegment(keyPos.filePath, keyPos.position)
    IN  IF g.panic THEN [value |-> <<>>, err |-> "panic"]
        ELSE IF g.err # "nil" THEN [value |-> <<>>, err |-> g.err]
        ELSE IF ~hashMatches(g.entry) THEN [value |-> <<>>, err |-> "ErrHashMismatch"]
        ELSE [value |-> g.entry.value, err |-> "nil"]

\* db.Get when nothing runs between its lookup and its read.
Get(key) ==
    LET p == getPos(key)
    IN  IF p.err # "nil" THEN [value |-> <<>>, err |-> p.err] ELSE GetAt(p.keyPos)

\* No Close has been called since the last Put or Compact.
NoCloseView ==
    [set |-> FALSE, reopened |-> FALSE,
     view |-> [k \in Keys |-> [value |-> <<>>, err |-> "none"]],
     roster |-> <<>>]

\* The executor, waiting in "for op := range db.putOps".
ExecIdle == [pc |-> "recv", w |-> "w1", entry |-> NoEntry, n |-> 0]

\* The traffic counters a balancer may start a behaviour with.
Traffic == {0, 10, 20}

\* The sub-lists of the pool, in pool order, given which backends are in.
Healthy(in) == SelectSeq(Pool, LAMBDA s : in[s])

PoolSet == {Pool[i] : i \in 1..Len(Pool)}

\* NewDb on an empty directory: createSegment makes current-data0, and the
\* executor goroutine is started.
InitDb ==
    /\ dir = (0 :> <<>>)
    /\ segments = <<NewSegment(0)>>
    /\ out = [path |-> 0, closed |-> FALSE]
    /\ lastSegmentIndex = 0
    /\ muHeld = FALSE
    /\ chClosed = FALSE
    /\ closeOnce = "fresh"
    /\ openErr = "nil"
    /\ exec = ExecIdle
    /\ wpc = [w \in Writers |-> "idle"]
    /\ wop = [w \in Writers |-> NoEntry]
    /\ resp = [w \in Writers |-> "none"]
    /\ rpc = "idle"
    /\ rkey = <<>>
    /\ rpos = NoPos
    /\ rres = [value |-> <<>>, err |-> "none"]
    /\ cpc = [c \in Closers |-> "idle"]
    /\ cret = [c \in Closers |-> "none"]
    /\ panicked = FALSE
    /\ acked = [k \in Keys |-> NoValue]
    /\ putBytes = 0
    /\ rFloor = NoValue
    /\ rLater = {}
    /\ nPuts = 0
    /\ nCompacts = 0
    /\ nReopens = 0
    /\ nTampers = 0
    /\ compacted = FALSE
    /\ closeView = NoCloseView
    /\ kpc = "idle"

\* The goroutines that serve the frontend's requests.
Reqs == {"r1", "r2"}

\* A handler that is not serving a request.
NoRequest == [pc |-> "idle", dst |-> "", sent |-> "none", status |-> 0,
              err |-> "nil", n |-> 0]

\* No entry has been given to the codec.
NoCodec == [pc |-> "none", entry |-> NoEntry, encoded |-> <<>>,
            decoded |-> [panic |-> FALSE, entry |-> NoEntry]]

\* No request is being handled by the store's server; status 0 is "no header
\* written yet".
NoHttp == [method |-> "", key |-> <<>>, value |-> <<>>, malformed |-> FALSE,
           engine |-> [value |-> <<>>, err |-> "none"], status |-> 0, body |-> <<>>]

\* NewBalancer: every pool member is healthy, no traffic is recorded.
NewBalancer ==
    /\ healthyPool = Pool
    /\ lastRound = [s \in PoolSet |-> TRUE]
    /\ serverTraffic = [s \in PoolSet |-> 0]
    /\ probe = [i |-> 0, newHealthyPool |-> <<>>,
                checks |-> [s \in PoolSet |-> TRUE], finished |-> FALSE]
    /\ chosen = [server |-> "none", status |-> 0]
    /\ fwd = [r \in Reqs |-> NoRequest]
    /\ nRequests = 0
    /\ delivered = serverTraffic

\* The store's HTTP server has no request.
NoServer ==
    /\ hpc = "idle"
    /\ hres = NoHttp

\* A store opened with any of the size budgets, beside a new balancer.
Init ==
    /\ segmentSize \in SegmentSizes
    /\ InitDb
    /\ NewBalancer
    /\ NoServer
    /\ codec = NoCodec

\* --------------------------------------------------------------------- Put

\* Db.Put, first half: the PutOp is built and the caller blocks in
\* "db.putOps <- op".
PutCall(w, key, value) ==
    /\ ~panicked
    /\ nPuts < MaxPuts
    /\ wpc[w] = "idle"
    /\ wpc' = [wpc EXCEPT ![w] = "send"]
    /\ wop' = [wop EXCEPT ![w] = [key |-> key, value |-> value,
                                  hash |-> calculateHash(value)]]
    /\ nPuts' = nPuts + 1
    /\ compacted' = FALSE
    /\ closeView' = NoCloseView
    /\ UNCHANGED <<dir, segments, out, lastSegmentIndex, segmentSize, muHeld,
                   chClosed, closeOnce, openErr, exec, resp, rpc, rkey, rpos,
                   rres, cpc, cret, panicked, acked, putBytes, rFloor, rLater,
                   nCompacts, nReopens, nTampers, lbVars, httpVars, pureVars, compactVars>>

\* The executor's "for op := range db.putOps" takes the op of one blocked sender.
ExecRecv(w) ==
    /\ ~panicked
    /\ exec.pc = "recv"
    /\ ~chClosed
    /\ wpc[w] = "send"
    /\ exec' = [pc |-> "lock", w |-> w, entry |-> wop[w], n |-> 0]
    /\ wpc' = [wpc EXCEPT ![w] = "wait"]
    /\ UNCHANGED <<dir, segments, out, lastSegmentIndex, segmentSize, muHeld,
                   chClosed, closeOnce, openErr, wop, resp, rpc, rkey, rpos,
                   rres, cpc, cret, panicked, acked, putBytes, rFloor, rLater,
                   nPuts, nCompacts, nReopens, nTampers, compacted, closeView, lbVars, httpVars, pureVars, compactVars>>

\* db.mu.Lock() in the executor.
ExecLock ==
    /\ ~panicked
    /\ exec.pc = "lock"
    /\ ~muHeld
    /\ muHeld' = TRUE
    /\ exec' = [exec EXCEPT !.pc = "seek"]
    /\ UNCHANGED <<dir, segments, out, lastSegmentIndex, segmentSize,
                   chClosed, closeOnce, openErr, wpc, wop, resp, rpc, rkey, rpos,
                   rres, cpc, cret, panicked, acked, putBytes, rFloor, rLater,
                   nPuts, nCompacts, nReopens, nTampers, compacted, closeView, lbVars, httpVars, pureVars, compactVars>>

\* A faulty rollover test: a record that exactly fills the budget is refused.
needsRolloverAtBudget(currentSize, entry) ==
    currentSize + GetLength(entry) >= segmentSize

\* A faulty rollover test: the length of the record is left out.
needsRolloverLate(currentSize, entry) == currentSize > segmentSize

\* The rollover test of startPutRoutine.
needsRollover(currentSize, entry) == currentSize + GetLength(entry) > segmentSize

\* The executor asks for the size of the active file and decides on a rollover;
\* a failed Seek is the reply.
ExecSeek ==
    /\ ~panicked
    /\ exec.pc = "seek"
    /\ LET sk == SeekEnd
       IN  IF sk.err # "nil"
           THEN /\ resp' = [resp EXCEPT ![exec.w] = sk.err]
                /\ muHeld' = FALSE
                /\ exec' = [exec EXCEPT !.pc = "recv"]
           ELSE /\ exec' = [exec EXCEPT !.pc = IF needsRollover(sk.pos, exec.entry)
                                               THEN "roll" ELSE "write"]
                /\ UNCHANGED <<resp, muHeld>>
    /\ UNCHANGED <<dir, segments, out, lastSegmentIndex, segmentSize,
                   chClosed, closeOnce, openErr, wpc, wop, rpc, rkey, rpos,
                   rres, cpc, cret, panicked, acked, putBytes, rFloor, rLater,
                   nPuts, nCompacts, nReopens, nTampers, compacted, closeView, lbVars, httpVars, pureVars, compactVars>>

\* The file current-data<n> after os.OpenFile(O_WRONLY|O_CREATE|O_APPEND).
Created(n) == IF n \in DOMAIN dir THEN dir ELSE dir @@ (n :> <<>>)

\* db.createSegment: the next file is created and becomes db.out, the old
\* handle is closed, the new segment is appended to the roster.
ExecRoll ==
    /\ ~panicked
    /\ exec.pc = "roll"
    /\ lastSegmentIndex' = lastSegmentIndex + 1
    /\ dir' = Created(lastSegmentIndex + 1)
    /\ out' = [path |-> lastSegmentIndex + 1, closed |-> FALSE]
    /\ segments' = Append(segments, NewSegment(lastSegmentIndex + 1))
    /\ exec' = [exec EXCEPT !.pc = "write"]
    /\ UNCHANGED <<segmentSize, muHeld,
                   chClosed, closeOnce, openErr, wpc, wop, resp, rpc, rkey, rpos,
                   rres, cpc, cret, panicked, acked, putBytes, rFloor, rLater,
                   nPuts, nCompacts, nReopens, nTampers, compacted, closeView, lbVars, httpVars, pureVars, compactVars>>

\* db.out.Write(op.entry.Encode()): the frame is appended to the file of db.out;
\* on a closed handle nothing is written and the error is the reply.
ExecWrite ==
    /\ ~panicked
    /\ exec.pc = "write"
    /\ IF out.closed
       THEN /\ resp' = [resp EXCEPT ![exec.w] = "ErrClosed"]
            /\ muHeld' = FALSE
            /\ exec' = [exec EXCEPT !.pc = "recv"]
            /\ UNCHANGED dir
       ELSE /\ dir' = [dir EXCEPT ![out.path] = @ \o Encode(exec.entry)]
            /\ exec' = [exec EXCEPT !.pc = "setKey", !.n = Len(Encode(exec.entry))]
            /\ UNCHANGED <<resp, muHeld>>
    /\ UNCHANGED <<segments, out, lastSegmentIndex, segmentSize,
                   chClosed, closeOnce, openErr, wpc, wop, rpc, rkey, rpos,
                   rres, cpc, cret, panicked, acked, putBytes, rFloor, rLater,
                   nPuts, nCompacts, nReopens, nTampers, compacted, closeView, lbVars, httpVars, pureVars, compactVars>>

\* A faulty setKey: the end of the record is taken for its start.
startPositionEnd(currentOffset, n) == currentOffset

\* The start of the record just written, in setKey.
startPosition(currentOffset, n) == currentOffset - n

\* db.setKey, then "op.resp <- err" with a nil error and db.mu.Unlock().  The
\* Put is acknowledged here.
ExecSetKey ==
    /\ ~panicked
    /\ exec.pc = "setKey"
    /\ LET key == exec.entry.key
           last == Len(segments)
       IN  /\ segments' = [segments EXCEPT ![last].index =
                              MapSet(@, key, startPosition(SeekEnd.pos, exec.n))]
           /\ acked' = [acked EXCEPT ![key] = exec.entry.value]
           /\ rLater' = IF rpc \in {"getPos", "read"} /\ rkey = key
                        THEN rLater \cup {exec.entry.value} ELSE rLater
    /\ putBytes' = putBytes + exec.n
    /\ resp' = [resp EXCEPT ![exec.w] = "nil"]
    /\ muHeld' = FALSE
    /\ exec' = [exec EXCEPT !.pc = "recv"]
    /\ UNCHANGED <<dir, out, lastSegmentIndex, segmentSize,
                   chClosed, closeOnce, openErr, wpc, wop, rpc, rkey, rpos,
                   rres, cpc, cret, panicked, rFloor,
                   nPuts, nCompacts, nReopens, nTampers, compacted, closeView, lbVars, httpVars, pureVars, compactVars>>

\* Db.Put, second half: "return <-op.resp".
PutReturn(w) ==
    /\ ~panicked
    /\ wpc[w] = "wait"
    /\ resp[w] # "none"
    /\ wpc' = [wpc EXCEPT ![w] = "idle"]
    /\ resp' = [resp EXCEPT ![w] = "none"]
    /\ wop' = [wop EXCEPT ![w] = NoEntry]
    /\ UNCHANGED <<dir, segments, out, lastSegmentIndex, segmentSize, muHeld,
                   chClosed, closeOnce, openErr, exec, rpc, rkey, rpos,
                   rres, cpc, cret, panicked, acked, putBytes, rFloor, rLater,
                   nPuts, nCompacts, nReopens, nTampers, compacted, closeView, lbVars, httpVars, pureVars, compactVars>>

\* --------------------------------------------------------------------- Get

\* Db.Get is called with key.
GetCall(key) ==
    /\ ~panicked
    /\ rpc = "idle"
    /\ rpc' = "getPos"
    /\ rkey' = key
    /\ rFloor' = acked[key]
    /\ rLater' = {}
    /\ rres' = [value |-> <<>>, err |-> "none"]
    /\ rpos' = NoPos
    /\ UNCHANGED <<dir, segments, out, lastSegmentIndex, segmentSize, muHeld,
                   chClosed, closeOnce, openErr, exec, wpc, wop, resp,
                   cpc, cret, panicked, acked, putBytes,
                   nPuts, nCompacts, nReopens, nTampers, compacted, closeView, lbVars, httpVars, pureVars, compactVars>>

\* db.getPos under db.mu.RLock(): ErrNotFound is Get's result.
GetPos ==
    /\ ~panicked
    /\ rpc = "getPos"
    /\ ~muHeld
    /\ LET p == getPos(rkey)
       IN  IF p.err # "nil"
           THEN /\ rres' = [value |-> <<>>, err |-> p.err]
                /\ rpc' = "done"
                /\ UNCHANGED rpos
           ELSE /\ rpos' = p.keyPos
                /\ rpc' = "read"
                /\ UNCHANGED rres
    /\ UNCHANGED <<dir, segments, out, lastSegmentIndex, segmentSize, muHeld,
                   chClosed, closeOnce, openErr, exec, wpc, wop, resp, rkey,
                   cpc, cret, panicked, acked, putBytes, rFloor, rLater,
                   nPuts, nCompacts, nReopens, nTampers, compacted, closeView, lbVars, httpVars, pureVars, compactVars>>

\* The rest of Db.Get, outside the lock: getFromSegment and the hash check.  A
\* panic in Decode ends the process.
GetRead ==
    /\ ~panicked
    /\ rpc = "read"
    /\ rres' = GetAt(rpos)
    /\ rpc' = "done"
    /\ panicked' = (GetAt(rpos).err = "panic")
    /\ UNCHANGED <<dir, segments, out, lastSegmentIndex, segmentSize, muHeld,
                   chClosed, closeOnce, openErr, exec, wpc, wop, resp, rkey, rpos,
                   cpc, cret, acked, putBytes, rFloor, rLater,
                   nPuts, nCompacts, nReopens, nTampers, compacted, closeView, lbVars, httpVars, pureVars, compactVars>>

\* The caller has its result and may call again.
GetReturn ==
    /\ ~panicked
    /\ rpc = "done"
    /\ rpc' = "idle"
    /\ rkey' = <<>>
    /\ rpos' = NoPos
    /\ rres' = [value |-> <<>>, err |-> "none"]
    /\ rFloor' = NoValue
    /\ rLater' = {}
    /\ UNCHANGED <<dir, segments, out, lastSegmentIndex, segmentSize, muHeld,
                   chClosed, closeOnce, openErr, exec, wpc, wop, resp,
                   cpc, cret, panicked, acked, putBytes,
                   nPuts, nCompacts, nReopens, nTampers, compacted, closeView, lbVars, httpVars, pureVars, compactVars>>

\* A send on the closed db.putOps panics (Put after or during Close).
PutPanic(w) ==
    /\ ~panicked
    /\ wpc[w] = "send"
    /\ chClosed
    /\ panicked' = TRUE
    /\ UNCHANGED <<dir, segments, out, lastSegmentIndex, segmentSize, muHeld,
                   chClosed, closeOnce, openErr, exec, wpc, wop, resp, rpc, rkey,
                   rpos, rres, cpc, cret, acked, putBytes, rFloor, rLater,
                   nPuts, nCompacts, nReopens, nTampers, compacted, closeView, lbVars, httpVars, pureVars, compactVars>>

\* The range loop of the executor ends once db.putOps is closed.
ExecExit ==
    /\ ~panicked
    /\ exec.pc = "recv"
    /\ chClosed
    /\ exec' = [exec EXCEPT !.pc = "exit"]
    /\ UNCHANGED <<dir, segments, out, lastSegmentIndex, segmentSize, muHeld,
                   chClosed, closeOnce, openErr, wpc, wop, resp, rpc, rkey, rpos,
                   rres, cpc, cret, panicked, acked, putBytes, rFloor, rLater,
                   nPuts, nCompacts, nReopens, nTampers, compacted, closeView, lbVars, httpVars, pureVars, compactVars>>

\* ----------------------------------------------------------------- Compact

RECURSIVE keysToKeepOldestWins(_, _, _)
\* A faulty first loop of Compact: an older segment overrides a newer one.
keysToKeepOldestWins(sealed, i, keep) ==
    IF i = 0 THEN keep
    ELSE keysToKeepOldestWins(sealed, i - 1,
            [k \in DOMAIN keep \cup DOMAIN sealed[i].index |->
                IF k \in DOMAIN sealed[i].index
                THEN [filePath |-> sealed[i].filePath,
                      position |-> sealed[i].index[k]]
                ELSE keep[k]])

RECURSIVE keysToKeepFrom(_, _, _)
\* The first loop of Compact: the sealed segments from number i down to the
\* oldest, a key is recorded only the first time it is met.
keysToKeepFrom(sealed, i, keep) ==
    IF i = 0 THEN keep
    ELSE keysToKeepFrom(sealed, i - 1,
            [k \in DOMAIN keep \cup DOMAIN sealed[i].index |->
                IF k \in DOMAIN keep THEN keep[k]
                ELSE [filePath |-> sealed[i].filePath,
                      position |-> sealed[i].index[k]]])

\* keysToKeep of Compact
keysToKeep(sealed) == keysToKeepFrom(sealed, Len(sealed), <<>>)

\* The orders in which "range keysToKeep" may visit the keys S (Go leaves the
\* iteration order of a map open).
Orders(S) == {o \in [1..Cardinality(S) -> S] : \A k \in S : \E i \in DOMAIN o : o[i] = k}

RECURSIVE compactCopyAborting(_, _, _)
\* A faulty second loop of Compact: the first failed read ends the loop.
compactCopyAborting(keep, ord, acc) ==
    IF ord = <<>> THEN acc
    ELSE LET key == Head(ord)
             g == getFromSegment(keep[key].filePath, keep[key].position)
         IN  IF g.panic THEN [acc EXCEPT !.panic = TRUE]
             ELSE IF g.err # "nil" THEN acc
             ELSE LET encoded == Encode([g.entry EXCEPT !.key = key])
                  IN  compactCopyAborting(keep, Tail(ord),
                          [bytes |-> acc.bytes \o encoded,
                           index |-> MapSet(acc.index, key, acc.offset),
                           offset |-> acc.offset + Len(encoded),
                           panic |-> FALSE])

RECURSIVE compactCopy(_, _, _)
\* The second loop of Compact, over the keys in the order ord: each record is
\* read, re-encoded and appended to the new file; a failed read skips the key;
\* a panic in Decode ends the loop (and the process).
compactCopy(keep, ord, acc) ==
    IF ord = <<>> THEN acc
    ELSE LET key == Head(ord)
             g == getFromSegment(keep[key].filePath, keep[key].position)
         IN  IF g.panic THEN [acc EXCEPT !.panic = TRUE]
             ELSE IF g.err # "nil" THEN compactCopy(keep, Tail(ord), acc)
             ELSE LET encoded == Encode([g.entry EXCEPT !.key = key])
                  IN  compactCopy(keep, Tail(ord),
                          [bytes |-> acc.bytes \o encoded,
                           index |-> MapSet(acc.index, key, acc.offset),
                           offset |-> acc.offset + Len(encoded),
                           panic |-> FALSE])

\* The numbers of the files of the segments in a roster.
\* A faulty removal: the file of the write handle is taken for a compacted one.
PathsAndActive(roster) == {roster[i].filePath : i \in 1..Len(roster)} \cup {out.path}

\* The files of the segments of a roster.
Paths(roster) == {roster[i].filePath : i \in 1..Len(roster)}

\* The body of Db.Compact, between db.mu.Lock() and the deferred Unlock.
compactBody ==
    /\ IF Len(segments) < 2
       THEN UNCHANGED <<dir, segments, lastSegmentIndex, panicked, nCompacts,
                        compacted, closeView>>
       ELSE LET segmentsToCompact == SubSeq(segments, 1, Len(segments) - 1)
                activeSegment == getLastSegment
                n == lastSegmentIndex + 1
                keep == keysToKeep(segmentsToCompact)
            IN  \E ord \in Orders(DOMAIN keep) :
                  LET c == compactCopy(keep, ord,
                              [bytes |-> <<>>, index |-> <<>>, offset |-> 0,
                               panic |-> FALSE])
                      written == [Created(n) EXCEPT ![n] = @ \o c.bytes]
                  IN  /\ nCompacts' = nCompacts + 1
                      /\ compacted' = ~c.panic
                      /\ closeView' = NoCloseView
                      /\ lastSegmentIndex' = n
                      /\ panicked' = c.panic
                      /\ IF c.panic
                         THEN /\ dir' = written
                              /\ UNCHANGED segments
                         ELSE /\ segments' = <<[filePath |-> n, index |-> c.index],
                                               activeSegment>>
                              /\ dir' = [f \in DOMAIN written \ Paths(segmentsToCompact)
                                            |-> written[f]]
    /\ UNCHANGED <<out, segmentSize, chClosed, closeOnce, openErr, exec,
                   wpc, wop, resp, rpc, rkey, rpos, rres, cpc, cret, acked,
                   putBytes, rFloor, rLater, nPuts, nReopens, nTampers, lbVars,
                   httpVars, pureVars>>

\* Db.Compact, under db.mu.Lock() from start to end.
Compact ==
    /\ ~panicked
    /\ ~muHeld
    /\ nCompacts < MaxCompacts
    /\ compactBody
    /\ UNCHANGED <<muHeld, compactVars>>

\* A faulty Compact: it does not wait for db.mu.
canLockAlways(held) == TRUE

\* db.mu.Lock() returns once no one holds db.mu.
canLock(held) == ~held

\* Db.Compact is called by the caller whose steps are taken one by one.
CompactCall ==
    /\ ~panicked
    /\ kpc = "idle"
    /\ nCompacts < MaxCompacts
    /\ kpc' = "lock"
    /\ UNCHANGED <<kvVars, lbVars, httpVars, pureVars>>

\* Db.Compact, first half: db.mu.Lock().
CompactLock ==
    /\ ~panicked
    /\ kpc = "lock"
    /\ canLock(muHeld)
    /\ muHeld' = TRUE
    /\ kpc' = "locked"
    /\ UNCHANGED <<dir, segments, out, lastSegmentIndex, segmentSize,
                   chClosed, closeOnce, openErr, exec, wpc, wop, resp, rpc, rkey,
                   rpos, rres, cpc, cret, panicked, acked, putBytes, rFloor,
                   rLater, nPuts, nCompacts, nReopens, nTampers, compacted,
                   closeView, lbVars, httpVars, pureVars>>

\* A faulty Compact: db.mu is not unlocked.
afterUnlockForgotten(held) == held

\* db.mu after the deferred db.mu.Unlock() of Compact.
afterUnlock(held) == FALSE

\* Db.Compact, second half: the body and the deferred db.mu.Unlock().
CompactRun ==
    /\ ~panicked
    /\ kpc = "locked"
    /\ compactBody
    /\ muHeld' = afterUnlock(muHeld)
    /\ kpc' = "idle"

\* ------------------------------------------------------------------- Close

\* A faulty Close: no Once, every caller runs the function.
closeOnceDoAlways(once) == "chan"

\* sync.Once.Do as seen by a caller: it runs the function, waits for the
\* caller that is running it, or returns at once.
closeOnceDo(once) ==
    IF once = "fresh" THEN "chan" ELSE IF once = "running" THEN "wait" ELSE "done"

\* Db.Close is called: closeOnce.Do decides what this caller does.  A caller
\* that finds the Once done returns the nil error.
CloseCall(c) ==
    /\ ~panicked
    /\ cpc[c] = "idle"
    /\ cpc' = [cpc EXCEPT ![c] = closeOnceDo(closeOnce)]
    /\ cret' = [cret EXCEPT ![c] = IF closeOnceDo(closeOnce) = "done" THEN "nil" ELSE "none"]
    /\ closeOnce' = IF closeOnceDo(closeOnce) = "chan" THEN "running" ELSE closeOnce
    /\ closeView' = IF closeOnceDo(closeOnce) = "chan"
                    THEN [set |-> TRUE, reopened |-> FALSE,
                          view |-> [k \in Keys |-> Get(k)],
                          roster |-> [i \in 1..Len(segments) |-> segments[i].filePath]]
                    ELSE closeView
    /\ UNCHANGED <<dir, segments, out, lastSegmentIndex, segmentSize, muHeld,
                   chClosed, openErr, exec, wpc, wop, resp, rpc, rkey, rpos, rres,
                   panicked, acked, putBytes, rFloor, rLater,
                   nPuts, nCompacts, nReopens, nTampers, compacted, lbVars, httpVars, pureVars, compactVars>>

\* close(db.putOps); closing a closed channel panics.
CloseChan(c) ==
    /\ ~panicked
    /\ cpc[c] = "chan"
    /\ IF chClosed
       THEN /\ panicked' = TRUE
            /\ UNCHANGED <<chClosed, cpc>>
       ELSE /\ chClosed' = TRUE
            /\ cpc' = [cpc EXCEPT ![c] = "file"]
            /\ UNCHANGED panicked
    /\ UNCHANGED <<dir, segments, out, lastSegmentIndex, segmentSize, muHeld,
                   closeOnce, openErr, exec, wpc, wop, resp, rpc, rkey, rpos, rres,
                   cret, acked, putBytes, rFloor, rLater,
                   nPuts, nCompacts, nReopens, nTampers, compacted, closeView, lbVars, httpVars, pureVars, compactVars>>

\* err = db.out.Close(), the end of the function run by the Once, and the
\* return of err.
CloseFile(c) ==
    /\ ~panicked
    /\ cpc[c] = "file"
    /\ out' = [out EXCEPT !.closed = TRUE]
    /\ cret' = [cret EXCEPT ![c] = IF out.closed THEN "ErrClosed" ELSE "nil"]
    /\ closeOnce' = "done"
    /\ cpc' = [cpc EXCEPT ![c] = "done"]
    /\ UNCHANGED <<dir, segments, lastSegmentIndex, segmentSize, muHeld,
                   chClosed, openErr, exec, wpc, wop, resp, rpc, rkey, rpos, rres,
                   panicked, acked, putBytes, rFloor, rLater,
                   nPuts, nCompacts, nReopens, nTampers, compacted, closeView, lbVars, httpVars, pureVars, compactVars>>

\* A caller that waited in closeOnce.Do for the running caller returns nil.
CloseWait(c) ==
    /\ ~panicked
    /\ cpc[c] = "wait"
    /\ closeOnce = "done"
    /\ cret' = [cret EXCEPT ![c] = "nil"]
    /\ cpc' = [cpc EXCEPT ![c] = "done"]
    /\ UNCHANGED <<dir, segments, out, lastSegmentIndex, segmentSize, muHeld,
                   chClosed, closeOnce, openErr, exec, wpc, wop, resp, rpc, rkey,
                   rpos, rres, panicked, acked, putBytes, rFloor, rLater,
                   nPuts, nCompacts, nReopens, nTampers, compacted, closeView, lbVars, httpVars, pureVars, compactVars>>

\* The caller has Close's result and may call again.
CloseReturn(c) ==
    /\ ~panicked
    /\ cpc[c] = "done"
    /\ cpc' = [cpc EXCEPT ![c] = "idle"]
    /\ cret' = [cret EXCEPT ![c] = "none"]
    /\ UNCHANGED <<dir, segments, out, lastSegmentIndex, segmentSize, muHeld,
                   chClosed, closeOnce, openErr, exec, wpc, wop, resp, rpc, rkey,
                   rpos, rres, panicked, acked, putBytes, rFloor, rLater,
                   nPuts, nCompacts, nReopens, nTampers, compacted, closeView, lbVars, httpVars, pureVars, compactVars>>

\* ------------------------------------------------------------------- NewDb

RECURSIVE sortFiles(_)
\* recoverAll's sort.Slice: the segment files in ascending order of their number.
sortFiles(S) ==
    IF S = {} THEN <<>>
    ELSE LET m == CHOOSE x \in S : \A y \in S : x <= y
         IN  <<m>> \o sortFiles(S \ {m})

RECURSIVE recoverScan(_, _, _)
\* The loop of recoverSegment on the bytes r left in the file, the next record
\* starting at offset: io.EOF ends it, another error is returned, Decode may panic.
recoverScan(r, offset, index) ==
    LET nx == readNext(r)
    IN  IF nx.err = "EOF" THEN [err |-> "nil", panic |-> FALSE, index |-> index]
        ELSE IF nx.err # "nil" THEN [err |-> nx.err, panic |-> FALSE, index |-> index]
        ELSE LET d == Decode(nx.data)
             IN  IF d.panic THEN [err |-> "nil", panic |-> TRUE, index |-> index]
                 ELSE recoverScan(SliceFrom(r, Len(nx.data)), offset + Len(nx.data),
                                  MapSet(index, d.entry.key, offset))

\* db.recoverSegment
recoverSegment(filePath) == recoverScan(dir[filePath], 0, <<>>)

RECURSIVE recoverFiles(_, _)
\* The loop of recoverAll over the sorted files: the roster built so far, or
\* the error or panic that ended it.
recoverFiles(files, acc) ==
    IF files = <<>> \/ acc.err # "nil" \/ acc.panic THEN acc
    ELSE LET r == recoverSegment(Head(files))
         IN  recoverFiles(Tail(files),
                 [err |-> r.err, panic |-> r.panic,
                  segments |-> IF r.err = "nil" /\ ~r.panic
                               THEN Append(acc.segments,
                                           [filePath |-> Head(files), index |-> r.index])
                               ELSE acc.segments,
                  lastSegmentIndex |-> IF r.err = "nil" /\ ~r.panic
                                          /\ Head(files) > acc.lastSegmentIndex
                                       THEN Head(files) ELSE acc.lastSegmentIndex])

\* db.recoverAll on the directory
recoverAll ==
    recoverFiles(sortFiles(DOMAIN dir),
                 [err |-> "nil", panic |-> FALSE, segments |-> <<>>,
                  lastSegmentIndex |-> -1])

\* Nothing of the closed Db is still running.
Quiet ==
    /\ exec.pc = "exit"
    /\ \A w \in Writers : wpc[w] = "idle"
    /\ \A c \in Closers : cpc[c] = "idle"
    /\ rpc = "idle"

\* NewDb on the directory of a Db that was closed: recovery, then the last
\* segment of the roster is opened for append (or a first segment is created) and
\* a new executor is started.  An error of recovery is returned and nothing is
\* opened.
NewDb ==
    /\ ~panicked
    /\ closeOnce = "done"
    /\ Quiet
    /\ nReopens < MaxReopens
    /\ nReopens' = nReopens + 1
    /\ LET r == recoverAll
       IN  /\ panicked' = r.panic
           /\ closeView' = [closeView EXCEPT !.reopened =
                                closeView.set /\ ~r.panic /\ r.err = "nil"]
           /\ openErr' = r.err
           /\ IF r.panic \/ r.err # "nil"
              THEN UNCHANGED <<dir, segments, out, lastSegmentIndex, muHeld,
                               chClosed, closeOnce, exec>>
              ELSE /\ IF Len(r.segments) = 0
                      THEN /\ lastSegmentIndex' = r.lastSegmentIndex + 1
                           /\ dir' = Created(r.lastSegmentIndex + 1)
                           /\ segments' = <<NewSegment(r.lastSegmentIndex + 1)>>
                           /\ out' = [path |-> r.lastSegmentIndex + 1, closed |-> FALSE]
                      ELSE /\ lastSegmentIndex' = r.lastSegmentIndex
                           /\ segments' = r.segments
                           /\ out' = [path |-> r.segments[Len(r.segments)].filePath,
                                      closed |-> FALSE]
                           /\ UNCHANGED dir
                   /\ muHeld' = FALSE
                   /\ chClosed' = FALSE
                   /\ closeOnce' = "fresh"
                   /\ exec' = ExecIdle
    /\ UNCHANGED <<segmentSize, wpc, wop, resp, rpc, rkey, rpos, rres, cpc, cret,
                   acked, putBytes, rFloor, rLater, nPuts, nCompacts, nTampers, compacted,
                   lbVars, httpVars, pureVars, compactVars>>

\* ------------------------------------------------------------- tampering

\* The bytes a value byte on disk may be overwritten with.
TamperBytes == {120, 121}

\* Someone outside the program overwrites one byte in the value region of a
\* record that a segment of the roster indexes: byte j of the value of the
\* record at position pos of file f becomes b.  The stored hash is left as is.
Tamper ==
    /\ ~panicked
    /\ nTampers < MaxTampers
    /\ nTampers' = nTampers + 1
    /\ \E i \in 1..Len(segments) : \E key \in DOMAIN segments[i].index :
          LET f == segments[i].filePath
              pos == segments[i].index[key]
              g == getFromSegment(f, pos)
          IN  /\ g.err = "nil" /\ ~g.panic
              /\ \E j \in 1..Len(g.entry.value), b \in TamperBytes :
                    LET at == pos + 8 + Len(g.entry.key) + 4 + j
                    IN  /\ dir[f][at] # b
                        /\ dir' = [dir EXCEPT ![f][at] = b]
    /\ UNCHANGED <<segments, out, lastSegmentIndex, segmentSize, muHeld, chClosed,
                   closeOnce, openErr, exec, wpc, wop, resp, rpc, rkey, rpos, rres,
                   cpc, cret, panicked, acked, putBytes, rFloor, rLater,
                   nPuts, nCompacts, nReopens, compacted, closeView, lbVars, httpVars, pureVars, compactVars>>

\* Someone outside the program cuts a sealed segment file short: the file of a
\* roster segment other than the last loses everything from the start of an
\* indexed record on, or from the end of that record's two length fields on.
Truncate ==
    /\ ~panicked
    /\ nTampers < MaxTampers
    /\ nTampers' = nTampers + 1
    /\ \E i \in 1..(Len(segments) - 1) : \E key \in DOMAIN segments[i].index :
          LET f == segments[i].filePath
              pos == segments[i].index[key]
          IN  \E m \in {pos, pos + HeaderLen} :
                 /\ 0 <= pos /\ m < Len(dir[f])
                 /\ dir' = [dir EXCEPT ![f] = SubSeq(@, 1, m)]
    /\ UNCHANGED <<segments, out, lastSegmentIndex, segmentSize, muHeld, chClosed,
                   closeOnce, openErr, exec, wpc, wop, resp, rpc, rkey, rpos, rres,
                   cpc, cret, panicked, acked, putBytes, rFloor, rLater,
                   nPuts, nCompacts, nReopens, compacted, closeView, lbVars,
                   httpVars, pureVars, compactVars>>

\* What the low byte of a length field may be overwritten with: 0, less than
\* the two length fields take, and more than any file of the model holds.
FrameBytes == {0, HeaderLen - 5, 5 * HashLen}

\* Someone outside the program damages the frame of a record that a segment of
\* the roster indexes, before the store is opened again: the low byte of its
\* total size or of its key length is overwritten, or the file is cut two
\* bytes after the record's start or after the record's two length fields.
Corrupt ==
    /\ ~panicked
    /\ nReopens = 0
    /\ nTampers < MaxTampers
    /\ nTampers' = nTampers + 1
    /\ \E i \in 1..Len(segments) : \E key \in DOMAIN segments[i].index :
          LET f == segments[i].filePath
              pos == segments[i].index[key]
          IN  /\ 0 <= pos /\ pos + HeaderLen < Len(dir[f])
              /\ \/ \E at \in {pos + 1, pos + 5}, b \in FrameBytes :
                       /\ dir[f][at] # b
                       /\ dir' = [dir EXCEPT ![f][at] = b]
                 \/ \E m \in {pos + 2, pos + HeaderLen} :
                       dir' = [dir EXCEPT ![f] = SubSeq(@, 1, m)]
    /\ UNCHANGED <<segments, out, lastSegmentIndex, segmentSize, muHeld, chClosed,
                   closeOnce, openErr, exec, wpc, wop, resp, rpc, rkey, rpos, rres,
                   cpc, cret, panicked, acked, putBytes, rFloor, rLater,
                   nPuts, nCompacts, nReopens, compacted, closeView, lbVars,
                   httpVars, pureVars, compactVars>>

\* ----------------------------------------------------------- load balancer

RECURSIVE chooseLoop(_, _, _)
\* The loop of chooseServer over the servers left in the healthy list, with
\* minTraffic (-1 at the start) and minTrafficServer so far.
chooseLoop(servers, minTraffic, minTrafficServer) ==
    IF servers = <<>> THEN minTrafficServer
    ELSE LET server == Head(servers)
             traffic == serverTraffic[server]
         IN  IF minTraffic = -1 \/ traffic < minTraffic
             THEN chooseLoop(Tail(servers), traffic, server)
             ELSE chooseLoop(Tail(servers), minTraffic, minTrafficServer)

\* A faulty chooseServer: the minimum is taken over the whole pool.
chooseServerFromPool == chooseLoop(Pool, -1, "")

\* Balancer.chooseServer: "" when the healthy list is empty.
chooseServer == IF Len(healthyPool) = 0 THEN "" ELSE chooseLoop(healthyPool, -1, "")

\* The status the frontend answers with before any forwarding: 503 when
\* chooseServer returned "", none yet (0) otherwise.
frontendStatus(server) == IF server = "" THEN 503 ELSE 0

\* A request arrives at the frontend and handler r serves it: chooseServer is
\* called; with "" the answer is 503 and the handler returns, otherwise forward
\* is called with the server.
Choose(r) ==
    /\ fwd[r].pc = "idle"
    /\ nRequests' = nRequests + 1
    /\ chosen' = [server |-> chooseServer, status |-> frontendStatus(chooseServer)]
    /\ fwd' = [fwd EXCEPT ![r] =
                  [NoRequest EXCEPT !.pc = IF chooseServer = "" THEN "done" ELSE "send",
                                    !.dst = chooseServer,
                                    !.status = frontendStatus(chooseServer)]]
    /\ UNCHANGED <<healthyPool, serverTraffic, probe, lastRound, delivered,
                   kvVars, httpVars, pureVars, compactVars>>

\* A faulty forward: the error of the request sender is not looked at.
afterSendUnchecked(f, failed) == [f EXCEPT !.pc = "copy", !.status = 200]

\* forward after b.requestSender.Send: on an error 503 is written and the error
\* returned; otherwise the status of the response is written and the body is
\* copied next.
afterSend(f, failed) ==
    IF failed THEN [f EXCEPT !.pc = "done", !.status = 503, !.err = "sendErr"]
    ELSE [f EXCEPT !.pc = "copy", !.status = 200]

\* b.requestSender.Send(fwdRequest) returns, with a response or an error.
ForwardSend(r, failed) ==
    /\ fwd[r].pc = "send"
    /\ fwd' = [fwd EXCEPT ![r] =
                  [afterSend(@, failed) EXCEPT !.sent = IF failed THEN "error" ELSE "ok"]]
    /\ UNCHANGED <<healthyPool, serverTraffic, probe, lastRound, chosen, nRequests,
                   delivered,
                   kvVars, httpVars, pureVars, compactVars>>

\* The sizes a response body may have.
BodySizes == {0, 10}

\* io.Copy(rw, resp.Body): n bytes are written; on an error forward returns
\* it at once, otherwise the traffic is accounted next.
ForwardCopy(r, n, failed) ==
    /\ fwd[r].pc = "copy"
    /\ fwd' = [fwd EXCEPT ![r] =
                  IF failed THEN [@ EXCEPT !.pc = "done", !.err = "copyErr", !.n = n]
                  ELSE [@ EXCEPT !.pc = "account", !.n = n]]
    /\ delivered' = [delivered EXCEPT ![fwd[r].dst] = @ + n]
    /\ UNCHANGED <<healthyPool, serverTraffic, probe, lastRound, chosen, nRequests,
                   kvVars, httpVars, pureVars, compactVars>>

\* A faulty accounting: the counter is left as it is.
accountNothing(traffic, dst, n) == traffic

\* b.serverTraffic[dst] += n
account(traffic, dst, n) == [traffic EXCEPT ![dst] = @ + n]

\* The end of forward, under b.lock: the counter of dst grows by n, nil is
\* returned.
ForwardAccount(r) ==
    /\ fwd[r].pc = "account"
    /\ serverTraffic' = account(serverTraffic, fwd[r].dst, fwd[r].n)
    /\ fwd' = [fwd EXCEPT ![r].pc = "done"]
    /\ UNCHANGED <<healthyPool, probe, lastRound, chosen, nRequests, delivered,
                   kvVars, httpVars, pureVars, compactVars>>

\* The handler returns: the request is answered.
ForwardReturn(r) ==
    /\ fwd[r].pc = "done"
    /\ fwd' = [fwd EXCEPT ![r] = NoRequest]
    /\ UNCHANGED <<healthyPool, serverTraffic, probe, lastRound, chosen, nRequests,
                   delivered,
                   kvVars, httpVars, pureVars, compactVars>>

\* A faulty healthCheck: a server is appended whatever its check returned.
appendAlways(newHealthyPool, server, isHealthy) == Append(newHealthyPool, server)

\* healthCheck's "if isHealthy { newHealthyPool = append(newHealthyPool, server) }"
appendHealthy(newHealthyPool, server, isHealthy) ==
    IF isHealthy THEN Append(newHealthyPool, server) ELSE newHealthyPool

\* One turn of the inner loop of healthCheck: the next pool member is checked,
\* and the check succeeds or fails.
ProbeCheck(isHealthy) ==
    /\ probe.i < Len(Pool)
    /\ probe' = [probe EXCEPT
                    !.i = @ + 1,
                    !.newHealthyPool = appendHealthy(@, Pool[probe.i + 1], isHealthy),
                    !.checks = [@ EXCEPT ![Pool[probe.i + 1]] = isHealthy]]
    /\ UNCHANGED <<healthyPool, serverTraffic, lastRound, chosen, fwd, nRequests,
                   delivered,
                   kvVars, httpVars, pureVars, compactVars>>

\* The end of a round: b.healthyPool = newHealthyPool under b.lock, and the next
\* round starts with an empty list.
ProbeReplace ==
    /\ probe.i = Len(Pool)
    /\ healthyPool' = probe.newHealthyPool
    /\ lastRound' = probe.checks
    /\ probe' = [i |-> 0, newHealthyPool |-> <<>>, checks |-> probe.checks,
                 finished |-> TRUE]
    /\ UNCHANGED <<serverTraffic, chosen, fwd, nRequests, delivered,
                   kvVars, httpVars, pureVars, compactVars>>

\* ------------------------------------------------------ the codec by itself

\* The byte strings of at most n bytes over the bytes B.
Strings(B, n) == UNION {[1..m -> B] : m \in 0..n}

\* The entries given to Encode: keys and values of up to CodecLen bytes, the
\* empty ones among them, under a hash field that is empty, the digest of
\* another value, or not a digest at all.
CodecEntries ==
    [key : Strings({97, 98}, CodecLen),
     value : Strings({120, 121}, CodecLen),
     hash : {<<>>, calculateHash(<<122>>), <<1, 2, 3>>}]

\* A store as in Init, and an entry for the codec.
InitCodec ==
    /\ segmentSize = ConcSegmentSize
    /\ InitDb
    /\ NewBalancer
    /\ NoServer
    /\ \E e \in CodecEntries : codec = [NoCodec EXCEPT !.pc = "entry", !.entry = e]

\* e.Encode() on the entry.
CodecEncode ==
    /\ codec.pc = "entry"
    /\ codec' = [codec EXCEPT !.pc = "encoded", !.encoded = Encode(codec.entry)]
    /\ UNCHANGED <<kvVars, lbVars, httpVars, compactVars>>

\* decoded.Decode(encoded) on a zero Entry.
CodecDecode ==
    /\ codec.pc = "encoded"
    /\ codec' = [codec EXCEPT !.pc = "decoded", !.decoded = Decode(codec.encoded)]
    /\ UNCHANGED <<kvVars, lbVars, httpVars, compactVars>>

\* ------------------------------------------------- the store's HTTP server

\* rw.WriteHeader(code): the first call decides the status, a later one is
\* superfluous and changes nothing.
WriteHeader(h, code) == IF h.status = 0 THEN [h EXCEPT !.status = code] ELSE h

\* GET /db/<key> arrives: the handler is about to call Db.Get(key).
HttpGet(key) ==
    /\ hpc = "idle"
    /\ hpc' = "call"
    /\ hres' = [NoHttp EXCEPT !.method = "GET", !.key = key]
    /\ UNCHANGED <<kvVars, lbVars, pureVars, compactVars>>

\* The GET handler once Db.Get has returned: 404 on any error, else 200 and
\* the JSON of key and value.
getReply(h, res) ==
    IF res.err # "nil" THEN WriteHeader(h, 404)
    ELSE [WriteHeader(h, 200) EXCEPT !.body = res.value]

\* Db.Get has returned to the GET handler, which answers.
HttpGetReply ==
    /\ hpc = "call" /\ hres.method = "GET"
    /\ rpc = "done"
    /\ hres' = [getReply(hres, rres) EXCEPT !.engine = rres]
    /\ hpc' = "replied"
    /\ UNCHANGED <<kvVars, lbVars, pureVars, compactVars>>

\* What body.Value may hold after json's Decode has failed: nothing, or a
\* value decoded before the error was met.
MalformedValues == {<<>>} \cup Values

\* The POST handler after json.NewDecoder(req.Body).Decode(&body): 400 is
\* written when it failed, and the handler goes on.
postDecoded(h, malformed) == IF malformed THEN WriteHeader(h, 400) ELSE h

\* POST /db/<key> arrives with a body: the handler decodes it and is about to
\* call Db.Put(key, body.Value).
HttpPost(key, value, malformed) ==
    /\ hpc = "idle"
    /\ hpc' = "call"
    /\ hres' = postDecoded([NoHttp EXCEPT !.method = "POST", !.key = key,
                                          !.value = value, !.malformed = malformed],
                           malformed)
    /\ UNCHANGED <<kvVars, lbVars, pureVars, compactVars>>

\* The POST handler once Db.Put has returned err: 500 on an error, else 201.
postReply(h, err) == IF err # "nil" THEN WriteHeader(h, 500) ELSE WriteHeader(h, 201)

\* Db.Put has its reply and the POST handler answers.
HttpPostReply ==
    /\ hpc = "call" /\ hres.method = "POST"
    /\ wpc["w1"] = "wait" /\ resp["w1"] # "none"
    /\ hres' = [postReply(hres, resp["w1"]) EXCEPT
                    !.engine = [value |-> <<>>, err |-> resp["w1"]]]
    /\ hpc' = "replied"
    /\ UNCHANGED <<kvVars, lbVars, pureVars, compactVars>>

\* The handler returns and the server takes the next request.
HttpReturn ==
    /\ hpc = "replied"
    /\ rpc = "idle" /\ \A w \in Writers : wpc[w] = "idle"
    /\ hpc' = "idle"
    /\ hres' = NoHttp
    /\ UNCHANGED <<kvVars, lbVars, pureVars, compactVars>>

\* ---------------------------------------------------------- specifications

\* No call is under way: a client that makes one call at a time makes its next.
Calm ==
    /\ \A w \in Writers : wpc[w] = "idle"
    /\ \A c \in Closers : cpc[c] = "idle"
    /\ rpc = "idle"

\* The steps a call of Put goes through once it is made.
PutSteps ==
    \/ \E w \in Writers : ExecRecv(w)
    \/ ExecLock
    \/ ExecSeek
    \/ ExecRoll
    \/ ExecWrite
    \/ ExecSetKey
    \/ \E w \in Writers : PutReturn(w)

\* The steps a call of Get goes through once it is made.
GetSteps ==
    \/ GetPos
    \/ GetRead
    \/ GetReturn

\* One client calling Put, Get and Compact, one call after the other.
NextSeq ==
    \/ PutSteps
    \/ GetSteps
    \/ \E key \in Keys, value \in Values : Calm /\ PutCall("w1", key, value)
    \/ \E key \in Keys : Calm /\ GetCall(key)
    \/ Calm /\ Compact

\* Callers of Put, Get and Compact running concurrently.
NextConc ==
    \/ PutSteps
    \/ GetSteps
    \/ \E w \in Writers, key \in Keys, value \in Values :
          nPuts < ConcPuts /\ PutCall(w, key, value)
    \/ \E key \in Keys : GetCall(key)
    \/ Compact

\* One client that also closes the store and opens it again with NewDb.
NextLife ==
    \/ NextSeq
    \/ Calm /\ CloseCall("c1")
    \/ CloseChan("c1")
    \/ CloseFile("c1")
    \/ CloseReturn("c1")
    \/ PutPanic("w1")
    \/ ExecExit
    \/ NewDb

\* Close called from two goroutines at any moment of a client's Puts.
NextClose ==
    \/ PutSteps
    \/ \E key \in Keys, value \in Values :
          nPuts < ClosePuts /\ PutCall("w1", key, value)
    \/ \E c \in Closers : CloseCall(c)
    \/ \E c \in Closers : CloseChan(c)
    \/ \E c \in Closers : CloseFile(c)
    \/ \E c \in Closers : CloseWait(c)
    \/ \E c \in Closers : CloseReturn(c)
    \/ PutPanic("w1")
    \/ ExecExit

\* The same client, and between two of its calls someone overwrites a byte.
NextTamper ==
    \/ PutSteps
    \/ GetSteps
    \/ \E key \in Keys, value \in Values :
          Calm /\ nPuts < TamperPuts /\ PutCall("w1", key, value)
    \/ \E key \in Keys : Calm /\ GetCall(key)
    \/ Calm /\ Compact
    \/ Calm /\ Tamper

\* One client, and between two of its calls a sealed file is cut short.
NextDamage ==
    \/ PutSteps
    \/ GetSteps
    \/ \E key \in Keys, value \in Values :
          Calm /\ nPuts < DamagePuts /\ PutCall("w1", key, value)
    \/ \E key \in Keys : Calm /\ GetCall(key)
    \/ Calm /\ Compact
    \/ Calm /\ Truncate

\* One client that puts, gets, closes the store and opens it again, and between
\* two of its calls a frame is damaged.
NextFrame ==
    \/ PutSteps
    \/ GetSteps
    \/ \E key \in Keys, value \in Values :
          Calm /\ closeOnce = "fresh" /\ nPuts < FramePuts /\ PutCall("w1", key, value)
    \/ \E key \in Keys : Calm /\ GetCall(key)
    \/ Calm /\ Corrupt
    \/ Calm /\ CloseCall("c1")
    \/ CloseChan("c1")
    \/ CloseFile("c1")
    \/ CloseReturn("c1")
    \/ ExecExit
    \/ NewDb

\* Put callers and a Compact caller whose taking of db.mu is a step of its own.
NextMutex ==
    \/ PutSteps
    \/ \E w \in Writers, key \in Keys, value \in Values :
          nPuts < MutexPuts /\ PutCall(w, key, value)
    \/ CompactCall
    \/ CompactLock
    \/ CompactRun

\* Callers of Put, Get and Compact running concurrently on a store that stays
\* open, every step of Compact a step of its own.
NextFair ==
    \/ PutSteps
    \/ GetSteps
    \/ \E w \in Writers, key \in Keys, value \in Values :
          nPuts < FairPuts /\ PutCall(w, key, value)
    \/ \E key \in Keys : GetCall(key)
    \/ nCompacts < FairCompacts /\ CompactCall
    \/ CompactLock
    \/ CompactRun

\* CompactRun can be taken: its body has a successor whatever the roster is.
CompactRunEnabled == ~panicked /\ kpc = "locked"

\* GetRead can be taken: the read has a result whatever the file holds.
GetReadEnabled == ~panicked /\ rpc = "read"

\* The scheduler runs every goroutine that can take a step; a goroutine that
\* waits for db.mu gets it when it is free again and again (sync.RWMutex hands
\* the lock to the waiter), and a sender blocked on db.putOps is received from.
\* The last two conjuncts are weak fairness of GetRead and of CompactRun: a
\* step of GetRead ends with rpc = "done" and a step of CompactRun with
\* kpc = "idle", so each is taken infinitely often or disabled infinitely
\* often exactly when it is not enabled for ever.
Fairness ==
    /\ \A w \in Writers : SF_vars(ExecRecv(w))
    /\ SF_vars(ExecLock)
    /\ WF_vars(ExecSeek)
    /\ WF_vars(ExecRoll)
    /\ WF_vars(ExecWrite)
    /\ WF_vars(ExecSetKey)
    /\ \A w \in Writers : WF_vars(PutReturn(w))
    /\ SF_vars(GetPos)
    /\ WF_vars(GetReturn)
    /\ SF_vars(CompactLock)
    /\ []<>~GetReadEnabled
    /\ []<>~CompactRunEnabled

\* A store opened with the larger size budget, beside a new balancer.
InitConc ==
    /\ segmentSize = ConcSegmentSize
    /\ InitDb
    /\ NewBalancer
    /\ NoServer
    /\ codec = NoCodec

\* A balancer whose healthy list is any list a probe round can leave and whose
\* counters are any of the bounded ones, beside a new store.
InitLB ==
    /\ segmentSize = ConcSegmentSize
    /\ InitDb
    /\ \E in \in [PoolSet -> BOOLEAN] :
          /\ healthyPool = Healthy(in)
          /\ lastRound = in
          /\ probe = [i |-> 0, newHealthyPool |-> <<>>, checks |-> in,
                      finished |-> FALSE]
    /\ serverTraffic \in [PoolSet -> Traffic]
    /\ chosen = [server |-> "none", status |-> 0]
    /\ fwd = [r \in Reqs |-> NoRequest]
    /\ nRequests = 0
    /\ delivered = serverTraffic
    /\ NoServer
    /\ codec = NoCodec

\* The prober and the requests of the load balancer.
NextLB ==
    \/ nRequests < MaxRequests /\ Choose("r1")
    \/ \E failed \in BOOLEAN : ForwardSend("r1", failed)
    \/ \E n \in BodySizes, failed \in BOOLEAN : ForwardCopy("r1", n, failed)
    \/ ForwardAccount("r1")
    \/ ForwardReturn("r1")
    \/ \E isHealthy \in BOOLEAN : ProbeCheck(isHealthy)
    \/ ProbeReplace

\* The prober and requests served concurrently.
NextFwd ==
    \/ \E r \in Reqs : nRequests < MaxForwards /\ Choose(r)
    \/ \E r \in Reqs, failed \in BOOLEAN : ForwardSend(r, failed)
    \/ \E r \in Reqs, n \in BodySizes, failed \in BOOLEAN : ForwardCopy(r, n, failed)
    \/ \E r \in Reqs : ForwardAccount(r)
    \/ \E r \in Reqs : ForwardReturn(r)
    \/ \E isHealthy \in BOOLEAN : ProbeCheck(isHealthy)
    \/ ProbeReplace

\* Requests that arrive one after the other, each answered with a body of
\* RotBody bytes, while the prober finds every backend healthy.
NextRot ==
    \/ /\ nRequests < RotRequests
       /\ \A r \in Reqs : fwd[r].pc = "idle"
       /\ Choose("r1")
    \/ ForwardSend("r1", FALSE)
    \/ ForwardCopy("r1", RotBody, FALSE)
    \/ ForwardAccount("r1")
    \/ ForwardReturn("r1")
    \/ ProbeCheck(TRUE)
    \/ ProbeReplace

\* A client that makes one call at a time, on a store that stays open.
Spec == Init /\ [][NextSeq]_vars

\* Concurrent callers on a store that stays open.
SpecConc == InitConc /\ [][NextConc]_vars

\* A client that makes one call at a time, Close and NewDb among them.
SpecLife == Init /\ [][NextLife]_vars

\* Close from two goroutines, concurrent with Puts.
SpecClose == Init /\ [][NextClose]_vars

\* One client on a store whose sealed files get cut short behind its back.
SpecDamage == Init /\ [][NextDamage]_vars

\* One client on a store whose frames get damaged behind its back.
SpecFrame == Init /\ [][NextFrame]_vars

\* Concurrent callers under a fair scheduler.
SpecFair == Init /\ [][NextFair]_vars /\ Fairness

\* Concurrent Puts and Compacts, the lock of Compact made visible.
SpecMutex == Init /\ [][NextMutex]_vars

\* The same client, and bytes of the segment files overwritten behind its back.
SpecTamper == Init /\ [][NextTamper]_vars

\* The store's HTTP server handling one request after the other, and between
\* two requests someone overwrites a byte of a segment file.
NextHttp ==
    \/ PutSteps
    \/ GetPos
    \/ GetRead
    \/ \E key \in Keys : HttpGet(key)
    \/ hpc = "call" /\ hres.method = "GET" /\ Calm /\ GetCall(hres.key)
    \/ HttpGetReply
    \/ hpc = "replied" /\ GetReturn
    \/ \E key \in Keys, value \in Values : HttpPost(key, value, FALSE)
    \/ \E key \in Keys, value \in MalformedValues : HttpPost(key, value, TRUE)
    \/ hpc = "call" /\ hres.method = "POST" /\ Calm
          /\ PutCall("w1", hres.key, hres.value)
    \/ HttpPostReply
    \/ hpc = "replied" /\ PutReturn("w1")
    \/ HttpReturn
    \/ hpc = "idle" /\ Calm /\ Tamper

\* The store's HTTP server.
SpecHttp == Init /\ [][NextHttp]_vars

\* Encode, then Decode of what it returned.
NextCodec ==
    \/ CodecEncode
    \/ CodecDecode

\* The codec applied to every entry of the bounded set.
SpecCodec == InitCodec /\ [][NextCodec]_vars

\* The load balancer.
SpecLB == InitLB /\ [][NextLB]_vars

\* The load balancer started fresh and given concurrent requests.
SpecFwd == InitConc /\ [][NextFwd]_vars

\* The load balancer started fresh and given sequential requests.
SpecRot == Init /\ [][NextRot]_vars

\* ------------------------------------------------------------------ claims

\* What Get must return for key k: the value of the last acknowledged Put, or
\* ErrNotFound when there was none.
Expected(k) ==
    IF acked[k] = NoValue THEN [value |-> <<>>, err |-> "ErrNotFound"]
    ELSE [value |-> acked[k], err |-> "nil"]

\* Segment i of the roster holds, for key k, a record whose value is not v.
HoldsOther(i, k, v) ==
    /\ k \in DOMAIN segments[i].index
    /\ getFromSegment(segments[i].filePath, segments[i].index[k]).entry.value # v

\* C1: when no call is under way, Get(k) returns for every key the value of the
\* most recent acknowledged Put of k (ErrNotFound if there is none), and every
\* Get the client has made returned it, whatever rollovers lie between the Puts.
C1_LatestWins ==
    /\ Calm => \A k \in Keys : Get(k) = Expected(k)
    /\ rpc = "done" => rres = Expected(rkey)

\* C1, reached: a Get returned the second value of a key whose first value is
\* in an older segment of the roster, and a Get returned the second value of a
\* key whose first value is in the same file.
C1_Witness ==
    /\ rpc = "done" /\ rres.err = "nil"
    /\ \E i \in 1..Len(segments) :
          /\ segments[i].filePath # rpos.filePath
          /\ HoldsOther(i, rkey, rres.value)
    /\ \E k \in Keys :
          LET p == getPos(k)
              first == getFromSegment(p.keyPos.filePath, 0)
          IN  /\ p.err = "nil" /\ p.keyPos.position > 0
              /\ first.entry.key = k
              /\ first.entry.value # acked[k]

\* C3: when Compact has found at least two segments and replaced the roster,
\* and no Put was called since, the directory holds exactly two segment files
\* and every key resolves through Get to the value of its last acknowledged
\* Put (keys never put stay not found).
C3_CompactKeeps ==
    compacted =>
        /\ Cardinality(DOMAIN dir) = 2
        /\ Len(segments) = 2
        /\ Calm => \A k \in Keys : Get(k) = Expected(k)
        /\ rpc = "done" => rres = Expected(rkey)

\* C3, reached: after a Compact the roster is the compacted segment and the
\* active one, a key is in both with different values, and two files are left
\* where there were more.
C3_Witness ==
    /\ compacted
    /\ Len(segments) = 2
    /\ segments[1].filePath > segments[2].filePath + 1
    /\ Cardinality(DOMAIN dir) = 2
    /\ \E k \in Keys :
          /\ k \in DOMAIN segments[1].index /\ k \in DOMAIN segments[2].index
          /\ HoldsOther(1, k, Get(k).value)
          /\ Get(k) = Expected(k)

\* C7: once the encoded length of the acknowledged Puts exceeds segmentSize the
\* directory holds more than one segment file.
C7_Segmentation == putBytes > segmentSize => Cardinality(DOMAIN dir) > 1

\* C7, reached: with the budget that holds two records, three Puts were made
\* and there is more than one file, and no Compact has run.
C7_Witness ==
    /\ segmentSize = ConcSegmentSize
    /\ putBytes > segmentSize
    /\ nCompacts = 0
    /\ Cardinality(DOMAIN dir) > 1
\* C2: once NewDb has reopened the directory of a store that was closed, with
\* no Put or Compact between the Close and the NewDb, Get returns for every key
\* what it returned when Close was called.
C2_RecoveryKeeps ==
    closeView.reopened => \A k \in Keys : Get(k) = closeView.view[k]

\* C2 without Compact: a store that was never compacted is recovered with
\* every key's latest value.
C2_RecoveryKeepsUncompacted ==
    (closeView.reopened /\ nCompacts = 0) =>
        \A k \in Keys : Get(k) = closeView.view[k]

\* C4: a Get that started after a Put of its key was acknowledged returns that
\* Put's value or the value of a Put whose index update came later, and no
\* error, whatever Put and Compact do meanwhile.
C4_GetSeesAckedPut ==
    (rpc = "done" /\ rFloor # NoValue) =>
        /\ rres.err = "nil"
        /\ rres.value \in {rFloor} \cup rLater

\* C4 without Compact: as long as no Compact has replaced the roster, the Get
\* returns the acknowledged value or a later one.
C4_GetSeesAckedPutUncompacted ==
    (rpc = "done" /\ rFloor # NoValue /\ nCompacts = 0) =>
        /\ rres.err = "nil"
        /\ rres.value \in {rFloor} \cup rLater

\* The record that holds key k has value bytes other than those of the last
\* acknowledged Put of k, under the hash that Put stored, which is not the
\* hash of the bytes now there.
Tampered(k) ==
    LET p == getPos(k)
        g == getFromSegment(p.keyPos.filePath, p.keyPos.position)
    IN  /\ p.err = "nil"
        /\ g.err = "nil" /\ ~g.panic
        /\ g.entry.value # acked[k]
        /\ g.entry.hash = calculateHash(acked[k])
        /\ g.entry.hash # calculateHash(g.entry.value)

\* What Get returns for a record whose hash does not match.
HashMismatch == [value |-> <<>>, err |-> "ErrHashMismatch"]

\* C5: while the record that holds key k has altered value bytes under its
\* stored hash, Get(k) fails with ErrHashMismatch and returns no value, and so
\* did the Get the client has just made for such a key.
C5_Integrity ==
    /\ \A k \in Keys : Tampered(k) => Get(k) = HashMismatch
    /\ (rpc = "done" /\ Tampered(rkey)) => rres = HashMismatch

\* C5, reached: a Get of a key whose record was tampered with has returned
\* ErrHashMismatch, while the other key still reads back.
C5_Witness ==
    /\ nTampers >= 1
    /\ rpc = "done" /\ Tampered(rkey) /\ rres = HashMismatch
    /\ \E k \in Keys : k # rkey /\ Get(k).err = "nil"

\* The index of roster segment i once the executor has finished the Put it is
\* processing: between the append and setKey the entry of the op's key is still
\* to be set to the start of the appended record.
IndexAfter(i) ==
    IF exec.pc = "setKey" /\ i = Len(segments)
    THEN MapSet(segments[i].index, exec.entry.key, Len(dir[out.path]) - exec.n)
    ELSE segments[i].index

\* C6: the only Put taken from the queue and not yet answered is the one the
\* executor is processing, which holds db.mu from its size check to its reply;
\* every segment file of the roster is a sequence of whole records, the record
\* just appended is the last one of the active file, and every index of the
\* roster maps each key to the offset of the last record of that key in the file.
C6_Serialized ==
    /\ \A w \in Writers :
          (wpc[w] = "wait" /\ resp[w] = "none") => (exec.pc # "recv" /\ exec.w = w)
    /\ exec.pc \notin {"recv", "exit"} =>
          /\ wpc[exec.w] = "wait" /\ resp[exec.w] = "none"
          /\ exec.entry = wop[exec.w]
    /\ exec.pc \in {"seek", "roll", "write", "setKey"} => muHeld
    /\ exec.pc = "setKey" =>
          /\ Len(dir[out.path]) >= exec.n
          /\ SliceFrom(dir[out.path], Len(dir[out.path]) - exec.n) = Encode(exec.entry)
    /\ \A i \in 1..Len(segments) :
          /\ segments[i].filePath \in DOMAIN dir
          /\ recoverSegment(segments[i].filePath) =
                [err |-> "nil", panic |-> FALSE, index |-> IndexAfter(i)]

\* C6, reached: the executor has appended the record of one caller behind
\* another record of the same file and is about to set the index, while the
\* other caller, whose Put was answered, has not returned from it yet.
C6_Witness ==
    /\ exec.pc = "setKey"
    /\ Len(dir[out.path]) > exec.n
    /\ \E w \in Writers : w # exec.w /\ wpc[w] = "wait" /\ resp[w] = "nil"

\* What Close may not change once the Once has been taken: everything but the
\* callers' own positions and results.
CloseLeaves ==
    UNCHANGED <<dir, segments, out, lastSegmentIndex, segmentSize, muHeld,
                chClosed, closeOnce, openErr, exec, wpc, wop, resp, panicked,
                acked, putBytes>>

\* C8: a Close called after the Once was taken only waits for the first one or
\* returns at once, changes nothing, and returns nil; the first Close closes the
\* queue, which is open until then, and then the file handle; no Close returns
\* an error.
C8_CloseIdempotent ==
    [][\A c \in Closers :
          /\ (cpc[c] = "idle" /\ cpc'[c] # "idle" /\ closeOnce # "fresh") =>
                (cpc'[c] \in {"wait", "done"} /\ CloseLeaves)
          /\ (cpc[c] = "wait" /\ cpc'[c] # "wait") =>
                (cpc'[c] = "done" /\ cret'[c] = "nil" /\ closeOnce = "done" /\ CloseLeaves)
          /\ (cpc[c] = "done" /\ cpc'[c] # "done") => CloseLeaves
          /\ cpc[c] = "chan" => ~chClosed
          /\ (cpc[c] = "chan" /\ cpc'[c] # "chan") => (cpc'[c] = "file" /\ chClosed')
          /\ (cpc[c] = "file" /\ cpc'[c] # "file") =>
                (cpc'[c] = "done" /\ chClosed' /\ out'.closed /\ closeOnce' = "done")
          /\ (cpc[c] # "done" /\ cpc'[c] = "done") => cret'[c] = "nil"]_vars

\* C8, reached: two calls of Close have both returned nil after a Put was
\* called, the queue and the handle are closed and nothing has panicked.
C8_Witness ==
    /\ \A c \in Closers : cpc[c] = "done" /\ cret[c] = "nil"
    /\ closeOnce = "done" /\ chClosed /\ out.closed
    /\ ~panicked
    /\ nPuts >= 1

\* C9: chooseServer returns "" exactly when the healthy list is empty, and the
\* frontend then answers 503; otherwise it returns a member of the healthy list
\* whose counter no healthy member undercuts and no earlier healthy member
\* equals.
C9_Selection ==
    LET s == chooseServer
    IN  /\ (s = "") <=> (Len(healthyPool) = 0)
        /\ (frontendStatus(s) = 503) <=> (Len(healthyPool) = 0)
        /\ (chosen.status = 503) <=> (chosen.server = "")
        /\ s # "" =>
              \E i \in 1..Len(healthyPool) :
                 /\ healthyPool[i] = s
                 /\ \A j \in 1..Len(healthyPool) :
                       /\ serverTraffic[healthyPool[j]] >= serverTraffic[s]
                       /\ j < i => serverTraffic[healthyPool[j]] > serverTraffic[s]

\* C9, reached: a request was given the first of two healthy backends with the
\* same smallest counter, while a backend outside the healthy list has a
\* smaller counter still.
C9_Witness ==
    /\ chosen.server \notin {"none", ""}
    /\ chosen.server = chooseServer
    /\ \E i, j \in 1..Len(healthyPool) :
          /\ i < j
          /\ healthyPool[i] = chosen.server
          /\ serverTraffic[healthyPool[j]] = serverTraffic[chosen.server]
    /\ \E u \in PoolSet :
          /\ \A i \in 1..Len(healthyPool) : healthyPool[i] # u
          /\ serverTraffic[u] < serverTraffic[chosen.server]

\* C10: the healthy list is the pool members whose check succeeded in the last
\* finished probe round, in pool order, and chooseServer does not return a
\* backend whose check failed in that round.
C10_Health ==
    /\ healthyPool = Healthy(lastRound)
    /\ \A b \in PoolSet : ~lastRound[b] => chooseServer # b

\* C10, reached: a probe round that found the backend with the smallest
\* counter failing has replaced the healthy list, and a request was given
\* another backend.
C10_Witness ==
    /\ probe.finished
    /\ \E b \in PoolSet :
          /\ ~lastRound[b]
          /\ \A o \in PoolSet \ {b} : serverTraffic[b] < serverTraffic[o]
          /\ chosen.server \notin {"none", "", b}
          /\ chosen.server = chooseServer

\* C11: when the request sender returns an error, the response status is 503
\* and forward returns that error without touching a counter: the step in
\* which Send fails and every later step of that request leave serverTraffic
\* as it is, and the request ends there.
C11_ForwardError ==
    [][\A r \in Reqs :
          /\ (fwd[r].pc = "send" /\ fwd'[r].sent = "error") =>
                /\ fwd'[r].status = 503
                /\ fwd'[r].err = "sendErr"
                /\ fwd'[r].pc = "done"
                /\ serverTraffic' = serverTraffic
          /\ (fwd[r].sent = "error" /\ fwd'[r] # fwd[r]) =>
                /\ fwd'[r] = NoRequest
                /\ serverTraffic' = serverTraffic]_vars

\* C11, reached: a forward to a backend with recorded traffic has failed in
\* Send with 503, after another request was accounted.
C11_Witness ==
    \E r \in Reqs :
       /\ fwd[r].sent = "error" /\ fwd[r].status = 503 /\ fwd[r].pc = "done"
       /\ serverTraffic[fwd[r].dst] > 0
       /\ nRequests >= 2

\* C12: with every backend healthy, all counters zero at the start and
\* sequential requests with bodies of one positive size, the k-th request is
\* forwarded to pool member ((k-1) mod 3)+1.
C12_Rotation ==
    \A r \in Reqs :
       fwd[r].pc # "idle" => fwd[r].dst = Pool[((nRequests - 1) % Len(Pool)) + 1]

\* C12, reached: the fourth request is being forwarded to the first backend
\* again, after one request to each backend.
C12_Witness ==
    /\ nRequests = 4
    /\ fwd["r1"].pc = "account" /\ fwd["r1"].dst = Pool[1]
    /\ \A b \in PoolSet : serverTraffic[b] = RotBody

\* The status GET /db/<key> is to answer with for an outcome of Db.Get.
GetStatusFor(res) ==
    IF res.err = "nil" THEN 200 ELSE IF res.err = "ErrNotFound" THEN 404 ELSE 500

\* C13: the GET handler answers 200 with the value when Get succeeded, 404
\* when Get returned ErrNotFound and 500 when Get returned ErrHashMismatch or
\* an I/O error.
C13_GetStatus ==
    (hpc = "replied" /\ hres.method = "GET") =>
        /\ hres.status = GetStatusFor(hres.engine)
        /\ hres.engine.err = "nil" => hres.body = hres.engine.value

\* C13 as the code has it: success is answered 200 with the value and every
\* error 404.
C13_GetStatusAsCoded ==
    (hpc = "replied" /\ hres.method = "GET") =>
        /\ hres.status = IF hres.engine.err = "nil" THEN 200 ELSE 404
        /\ hres.engine.err = "nil" => hres.body = hres.engine.value

\* C14: the POST handler answers 201 when the body was well-formed and Put
\* succeeded, 500 when Put failed and 400 when the body was malformed, and a
\* request with a malformed body makes no Put.
C14_PostStatus ==
    /\ (hpc = "replied" /\ hres.method = "POST") =>
          hres.status = IF hres.malformed THEN 400
                        ELSE IF hres.engine.err = "nil" THEN 201 ELSE 500
    /\ (hpc # "idle" /\ hres.method = "POST" /\ hres.malformed) =>
          /\ \A w \in Writers : wpc[w] = "idle"
          /\ hres.engine.err = "none"

\* C14, the statuses alone: 400 for a malformed body, else 201 or 500 by the
\* outcome of Put.
C14_PostStatusOnly ==
    (hpc = "replied" /\ hres.method = "POST") =>
        hres.status = IF hres.malformed THEN 400
                      ELSE IF hres.engine.err = "nil" THEN 201 ELSE 500

\* C15: Decode of Encode of an entry yields the entry's key and value and the
\* digest of the value, whatever hash the entry held, without a panic; the
\* first four bytes of the encoding are its length, 12 + len(k) + len(v) + 40.
C15_RoundTrip ==
    /\ codec.pc \in {"encoded", "decoded"} =>
          /\ Len(codec.encoded) = 12 + Len(codec.entry.key) + Len(codec.entry.value) + 40
          /\ Uint32(SubSeq(codec.encoded, 1, 4)) = Len(codec.encoded)
    /\ codec.pc = "decoded" =>
          /\ ~codec.decoded.panic
          /\ codec.decoded.entry = [key |-> codec.entry.key,
                                    value |-> codec.entry.value,
                                    hash |-> calculateHash(codec.entry.value)]

\* C15, reached: an entry with the empty key, the empty value and a hash field
\* that is no digest has been encoded and decoded.
C15_Witness ==
    /\ codec.pc = "decoded"
    /\ codec.entry = [key |-> <<>>, value |-> <<>>, hash |-> <<1, 2, 3>>]
    /\ codec.decoded.entry.hash = calculateHash(<<>>)

\* C16: after Close and NewDb on the same directory the roster lists the same
\* files in the same order as at Close, and the file that receives appends is
\* the one that was the active segment at Close.
C16_ReopenKeepsRoster ==
    closeView.reopened =>
        /\ [i \in 1..Len(segments) |-> segments[i].filePath] = closeView.roster
        /\ out.path = closeView.roster[Len(closeView.roster)]

\* C16 without Compact: a store that was never compacted is reopened with the
\* roster and the active file it had at Close.
C16_ReopenKeepsRosterUncompacted ==
    (closeView.reopened /\ nCompacts = 0) =>
        /\ [i \in 1..Len(segments) |-> segments[i].filePath] = closeView.roster
        /\ out.path = closeView.roster[Len(closeView.roster)]

\* C16 in the running process: a step changes a file only by appending to it,
\* and only the file of the last segment of the roster.
C16_OnlyActiveAppended ==
    [][\A f \in DOMAIN dir :
          (f \in DOMAIN dir' /\ dir'[f] # dir[f]) =>
              /\ f = segments[Len(segments)].filePath
              /\ Len(dir'[f]) > Len(dir[f])
              /\ SubSeq(dir'[f], 1, Len(dir[f])) = dir[f]]_vars

\* The steps of the executor on one Put, as the rollover rule describes them:
\* the decision compares the size of the active file plus the length of the
\* record with segmentSize; a rollover creates the file with the next number,
\* empty, and appends its segment to the roster as the active one; the record is
\* appended to the file of the last segment of the roster and no segment is
\* created by the write; the record's start is indexed in that last segment;
\* and the roster grows by no other step.
RolloverRule ==
    LET active == segments[Len(segments)].filePath
        next == lastSegmentIndex + 1
    IN  /\ (exec.pc = "seek" /\ exec'.pc = "roll") =>
              Len(dir[active]) + Len(Encode(exec.entry)) > segmentSize
        /\ (exec.pc = "seek" /\ exec'.pc = "write") =>
              Len(dir[active]) + Len(Encode(exec.entry)) <= segmentSize
        /\ (exec.pc = "roll" /\ exec'.pc # "roll") =>
              /\ exec'.pc = "write"
              /\ next \notin DOMAIN dir
              /\ dir' = dir @@ (next :> <<>>)
              /\ lastSegmentIndex' = next
              /\ segments' = Append(segments, [filePath |-> next, index |-> <<>>])
              /\ out' = [path |-> next, closed |-> FALSE]
        /\ (exec.pc = "write" /\ exec'.pc = "setKey") =>
              /\ out.path = active
              /\ dir' = [dir EXCEPT ![active] = @ \o Encode(exec.entry)]
              /\ segments' = segments
        /\ (exec.pc = "setKey" /\ exec'.pc # "setKey") =>
              /\ dir' = dir
              /\ segments' = [segments EXCEPT ![Len(segments)].index =
                                 MapSet(@, exec.entry.key,
                                        Len(dir[active]) - Len(Encode(exec.entry)))]
        /\ Len(segments') > Len(segments) => exec.pc = "roll"

\* A file that holds exactly one record: its length is the one its first four
\* bytes give.
SingleRecord(file) == Len(file) >= 4 /\ Uint32(file) = Len(file)

\* C17, as stated: the rollover rule, and every segment file holds at most
\* segmentSize bytes unless it holds a single record.
C17_RolloverBudget ==
    /\ [][RolloverRule]_vars
    /\ [](\A f \in DOMAIN dir : Len(dir[f]) <= segmentSize \/ SingleRecord(dir[f]))

\* C17, as the code has it: the rollover rule, and a file to which the executor
\* has just appended holds at most segmentSize bytes unless that record is the
\* only one in it.  The file Compact writes is not bounded by segmentSize.
C17_Rollover ==
    [][/\ RolloverRule
       /\ (exec.pc = "write" /\ exec'.pc = "setKey") =>
              \/ Len(dir'[out.path]) <= segmentSize
              \/ SingleRecord(dir'[out.path])]_vars

\* C17, reached: with the budget that holds two records, a third Put has
\* rolled over: the record was written to the new file, which is the active
\* segment and indexes it, and the sealed file holds two records.
C17_Witness ==
    /\ segmentSize = ConcSegmentSize
    /\ nCompacts = 0
    /\ Len(segments) = 2
    /\ exec.pc = "recv" /\ resp["w1"] = "nil"
    /\ Len(dir[segments[1].filePath]) > HashLen + HashLen
    /\ SingleRecord(dir[out.path])
    /\ DOMAIN segments[2].index # {}

\* C17, reached without a rollover: a second record was appended to the file
\* that already held one, and the roster still has one segment.
C17_WitnessAppend ==
    /\ segments = <<[filePath |-> 0, index |-> segments[1].index]>>
    /\ Len(dir[0]) > HashLen + HashLen
    /\ Cardinality(DOMAIN dir) = 1
    /\ exec.pc = "recv" /\ resp["w1"] = "nil"

\* C18: a Compact that changes anything runs on a roster of two segments or
\* more; it leaves the write handle, the bytes of the active segment's file and
\* the active segment (file and index) as they were, and when it returns the
\* roster is the new segment, whose file has the next number and did not exist
\* before, followed by that active segment.
C18_CompactFrame ==
    [][nCompacts' # nCompacts =>
          LET active == segments[Len(segments)]
          IN  /\ Len(segments) >= 2
              /\ out' = out
              /\ active.filePath \in DOMAIN dir'
              /\ dir'[active.filePath] = dir[active.filePath]
              /\ segments'[Len(segments')] = active
              /\ ~panicked' =>
                    /\ Len(segments') = 2
                    /\ segments'[1].filePath = lastSegmentIndex + 1
                    /\ segments'[1].filePath \notin DOMAIN dir
                    /\ segments'[1].filePath \in DOMAIN dir'
                    /\ lastSegmentIndex' = lastSegmentIndex + 1]_vars

\* C18, with fewer than two segments: while the roster has had one segment
\* only, no file but the first exists and lastSegmentIndex is 0, whether
\* Compact was called or not.
C18_CompactNothing ==
    (Len(segments) < 2 /\ nReopens = 0) =>
        /\ DOMAIN dir = {0} /\ lastSegmentIndex = 0 /\ ~compacted

\* C18, reached: Compact has returned on a roster of three segments, the
\* active segment holds a record, and the roster is the new segment followed
\* by the active one, whose file the write handle has open.
C18_Witness ==
    /\ compacted
    /\ lastSegmentIndex = 3
    /\ Len(segments) = 2
    /\ segments[1].filePath = 3
    /\ segments[2].filePath = 2
    /\ out = [path |-> 2, closed |-> FALSE]
    /\ DOMAIN segments[2].index # {}
    /\ DOMAIN segments[1].index # {}

\* The record Get resolves key k to holds a value no Put wrote: its value
\* bytes were overwritten, whatever hash is stored with them now.
Corrupted(k) ==
    LET p == getPos(k)
        g == getFromSegment(p.keyPos.filePath, p.keyPos.position)
    IN  /\ nTampers >= 1
        /\ p.err = "nil"
        /\ g.err = "nil" /\ ~g.panic
        /\ g.entry.value # acked[k]

\* C19: a record whose value bytes were overwritten is never delivered: Get
\* of its key fails with ErrHashMismatch, also when Compact has copied the
\* record since, and so did the Get the client has just made.
C19_IntegrityThroughCompact ==
    /\ \A k \in Keys : Corrupted(k) => Get(k) = HashMismatch
    /\ (rpc = "done" /\ Corrupted(rkey)) => rres = HashMismatch

\* C19 before any Compact: the overwritten record is refused.
C19_IntegrityUncompacted ==
    nCompacts = 0 =>
        /\ \A k \in Keys : Corrupted(k) => Get(k) = HashMismatch
        /\ (rpc = "done" /\ Corrupted(rkey)) => rres = HashMismatch

\* C20: in every state each segment of the roster indexes its own file: the
\* file is a sequence of complete records, every key that has a record in the
\* file is in the segment's index, and every entry of the index is the offset
\* at which the last record of its key starts in that file.  The record the
\* executor has appended and is about to index counts as indexed.
C20_IndexCoverage ==
    \A i \in 1..Len(segments) :
        LET file == segments[i].filePath
        IN  /\ file \in DOMAIN dir
            /\ recoverSegment(file) =
                   [err |-> "nil", panic |-> FALSE, index |-> IndexAfter(i)]

\* C20 while the store is open: as long as Close has not been called the
\* segments index their files.
C20_IndexCoverageOpen ==
    (~chClosed /\ ~out.closed) => C20_IndexCoverage

\* The executor is between its db.mu.Lock() and its db.mu.Unlock().
ExecInLock == exec.pc \in {"seek", "roll", "write", "setKey"}

\* C21: Compact and the executor never hold db.mu together; each key whose Put
\* was acknowledged reads back with the value of its last acknowledged Put,
\* before, during and after a Compact; and while Compact holds db.mu no step
\* changes a file, the roster, the write handle or the segment counter.
C21_Exclusion ==
    /\ [](~(kpc = "locked" /\ ExecInLock))
    /\ [](\A k \in Keys :
             acked[k] # NoValue => Get(k) = [value |-> acked[k], err |-> "nil"])
    /\ [][(kpc = "locked" /\ kpc' = "locked") =>
             UNCHANGED <<dir, segments, out, lastSegmentIndex>>]_vars

\* C21, reached: a Put was acknowledged, the roster has two segments, Compact
\* holds db.mu, and the executor has taken the next Put and waits for db.mu.
C21_Witness ==
    /\ kpc = "locked"
    /\ exec.pc = "lock"
    /\ Len(segments) >= 2
    /\ \E k \in Keys : acked[k] # NoValue

\* C21, reached afterwards: a Put was acknowledged after a Compact that
\* replaced the roster, and the key put before the Compact reads back.
C21_WitnessAfter ==
    /\ nCompacts >= 1
    /\ Len(segments) >= 2
    /\ kpc = "idle"
    /\ DOMAIN segments[1].index # {}
    /\ DOMAIN segments[Len(segments)].index # {}

\* C22: once the function run by Close's Once has finished, so that Close has
\* returned or is about to, no step appends a byte to a file, removes a file
\* or acknowledges a Put with the nil error.
C22_CloseStops ==
    [][closeOnce = "done" =>
          /\ \A f \in DOMAIN dir : f \in DOMAIN dir'
          /\ \A f \in DOMAIN dir' :
                Len(dir'[f]) = IF f \in DOMAIN dir THEN Len(dir[f]) ELSE 0
          /\ \A w \in Writers : resp'[w] = "nil" => resp[w] = "nil"]_vars

\* C22 for a Put whose size check comes after Close: the check fails on the
\* closed handle, the Put is answered with the error and nothing is written.
C22_LatePutRefused ==
    [][(closeOnce = "done" /\ exec.pc = "seek" /\ exec'.pc # "seek") =>
          /\ dir' = dir
          /\ exec'.pc = "recv"
          /\ resp'[exec.w] = "ErrClosed"]_vars

\* C22, the files: no step of Close or of the executor removes a file.
C22_FilesRemain ==
    [][\A f \in DOMAIN dir : f \in DOMAIN dir']_vars

RECURSIVE Pending(_, _)
\* The bytes of backend b that the handlers in R have copied to their clients
\* and are about to add to b's counter.
Pending(b, R) ==
    IF R = {} THEN 0
    ELSE LET r == CHOOSE x \in R : TRUE
         IN  (IF fwd[r].pc = "account" /\ fwd[r].dst = b THEN fwd[r].n ELSE 0)
             + Pending(b, R \ {r})

\* C23: the counter of each backend, with the bytes its handlers are about to
\* add, is the number of body bytes written to clients from that backend, so
\* the two are equal whenever no handler is between its copy and its
\* accounting; a step changes the counter of the handler's backend only, and
\* never lowers a counter.
C23_Accounting ==
    /\ [](\A b \in PoolSet : serverTraffic[b] + Pending(b, Reqs) = delivered[b])
    /\ [][\A b \in PoolSet :
             /\ serverTraffic'[b] >= serverTraffic[b]
             /\ serverTraffic'[b] # serverTraffic[b] =>
                   \E r \in Reqs : fwd[r].pc = "account" /\ fwd[r].dst = b
                                   /\ fwd'[r].pc = "done"]_vars

\* C23 for the bodies copied whole: no counter exceeds the bytes written, a
\* body copied without error is accounted in full in its backend's counter,
\* and only the step of a handler of backend b changes b's counter, upwards.
C23_AccountingOfWholeBodies ==
    /\ [](\A b \in PoolSet : serverTraffic[b] + Pending(b, Reqs) <= delivered[b])
    /\ [][\A r \in Reqs :
             (fwd[r].pc = "account" /\ fwd'[r].pc # "account") =>
                 serverTraffic' = [serverTraffic EXCEPT ![fwd[r].dst] = @ + fwd[r].n]]_vars
    /\ [][\A b \in PoolSet :
             /\ serverTraffic'[b] >= serverTraffic[b]
             /\ serverTraffic'[b] # serverTraffic[b] =>
                   \E r \in Reqs : fwd[r].pc = "account" /\ fwd[r].dst = b
                                   /\ fwd'[r].pc = "done"]_vars

\* C24: a Compact that replaces the roster deletes the sealed files and keeps
\* the active segment; a kept key whose record cannot be read is in no index of
\* the new roster unless the active segment holds it; every other kept key is
\* indexed in the new segment at a record of the new file that holds the key
\* with the value of its latest sealed record.
C24_BestEffort ==
    [][(nCompacts' # nCompacts /\ ~panicked') =>
          LET sealed == SubSeq(segments, 1, Len(segments) - 1)
              active == segments[Len(segments)]
              keep == keysToKeep(sealed)
              new == segments'[1]
          IN  /\ segments' = <<new, active>>
              /\ DOMAIN dir' = {new.filePath, active.filePath}
              /\ DOMAIN new.index \subseteq DOMAIN keep
              /\ \A k \in DOMAIN keep :
                    LET g == getFromSegment(keep[k].filePath, keep[k].position)
                    IN  IF g.err # "nil"
                        THEN k \notin DOMAIN new.index
                        ELSE /\ k \in DOMAIN new.index
                             /\ LET r == readNext(SliceFrom(dir'[new.filePath],
                                                            new.index[k]))
                                IN  /\ r.err = "nil"
                                    /\ Decode(r.data).entry.key = k
                                    /\ Decode(r.data).entry.value = g.entry.value]_vars

\* C24, Get: a key that no segment of the roster indexes is not found.
C24_SkippedNotFound ==
    \A k \in Keys :
       (\A i \in 1..Len(segments) : k \notin DOMAIN segments[i].index) =>
           Get(k) = [value |-> <<>>, err |-> "ErrNotFound"]

\* C24, reached: Compact has returned after the record of one key could not
\* be read: that key, acknowledged earlier, is not found, the other key was
\* copied and reads back, and only the two files of the roster are left.
C24_Witness ==
    /\ compacted
    /\ nTampers >= 1
    /\ Cardinality(DOMAIN dir) = 2
    /\ \E k \in Keys :
          /\ acked[k] # NoValue
          /\ Get(k) = [value |-> <<>>, err |-> "ErrNotFound"]
          /\ \E j \in Keys : j # k /\ j \in DOMAIN segments[1].index
                             /\ Get(j) = [value |-> acked[j], err |-> "nil"]

\* The frame Get resolves key k to is not the frame the last acknowledged Put
\* of k wrote: it was damaged.
Damaged(k) ==
    LET p == getPos(k)
        e == [key |-> k, value |-> acked[k], hash |-> calculateHash(acked[k])]
    IN  /\ nTampers >= 1
        /\ p.err = "nil"
        /\ acked[k] # NoValue
        /\ p.keyPos.position >= 0
        /\ \/ Len(dir[p.keyPos.filePath]) < p.keyPos.position + Len(Encode(e))
           \/ SubSeq(dir[p.keyPos.filePath], p.keyPos.position + 1,
                     p.keyPos.position + Len(Encode(e))) # Encode(e)

\* The errors of a read that met a damaged frame.
CorruptErrors == {"ErrUnexpectedEOF", "EOF", "ErrHashMismatch"}

\* C25: nothing crashes; a Get of a key whose frame was damaged has returned
\* an error and no value; a NewDb on a directory in which a frame was damaged
\* has returned an error.
C25_CorruptReported ==
    /\ ~panicked
    /\ (rpc = "done" /\ nReopens = 0 /\ Damaged(rkey)) =>
          (rres.err \in CorruptErrors /\ rres.value = <<>>)
    /\ (nTampers >= 1 /\ nReopens >= 1) => openErr # "nil"

\* C25 for a frame whose total size is more than the file holds after it (the
\* size overwritten with a larger one, or the file cut after the length
\* fields): Get returns the error of the short read and no value, and does not
\* crash.
C25_ShortFrameReported ==
    (rpc = "done" /\ nReopens = 0 /\ Damaged(rkey)
       /\ Len(dir[rpos.filePath]) - rpos.position >= 4
       /\ Uint32(SliceFrom(dir[rpos.filePath], rpos.position))
             > Len(dir[rpos.filePath]) - rpos.position) =>
        (rres = [value |-> <<>>, err |-> "ErrUnexpectedEOF"] /\ ~panicked)

\* A call of Put, Get or Compact has been made and has not returned.
CallPending ==
    \/ \E w \in Writers : wpc[w] # "idle"
    \/ rpc # "idle"
    \/ kpc # "idle"

\* Some goroutine can take a step: a caller can take its answer, the executor
\* can receive from a blocked sender, a waiter for db.mu finds it free, or a
\* goroutine is at a step that waits for nothing.
CanStep ==
    \/ \E w \in Writers : wpc[w] = "wait" /\ resp[w] # "none"
    \/ exec.pc = "recv" /\ \E w \in Writers : wpc[w] = "send"
    \/ exec.pc = "lock" /\ ~muHeld
    \/ ExecInLock
    \/ rpc = "getPos" /\ ~muHeld
    \/ rpc \in {"read", "done"}
    \/ kpc = "lock" /\ ~muHeld
    \/ kpc = "locked"

\* C26: under the fair scheduler every Put that was submitted is answered,
\* every Get gets its result and every Compact returns; the reply channel of
\* the Put the executor works on is empty while it holds db.mu, so its reply
\* does not block; and while a call is pending some step can be taken.
C26_Progress ==
    /\ \A w \in Writers :
          (wpc[w] = "send") ~> (wpc[w] = "wait" /\ resp[w] # "none")
    /\ (rpc = "getPos") ~> (rpc = "done")
    /\ (kpc = "lock") ~> (kpc = "idle")
    /\ [](ExecInLock => resp[exec.w] = "none")
    /\ [](CallPending => CanStep)
    /\ []~panicked

\* C26, reached: Compact holds db.mu on a roster of two segments while the
\* executor waits for it with a Put whose caller waits for the answer, and a
\* Get waits for the read lock.
C26_Witness ==
    /\ kpc = "locked"
    /\ Len(segments) >= 2
    /\ exec.pc = "lock"
    /\ \E w \in Writers : wpc[w] = "wait" /\ resp[w] = "none"
    /\ rpc = "getPos"
====
